---- MODULE Spec2Model ----
(***************************************************************************)
(* Model of the AudioHeadless playback controller                          *)
(* (src/src/helpers/notifier.ts), its QueueManager                         *)
(* (src/src/utils/queue-manager.ts) and its EventEmitter                   *)
(* (src/src/utils/event-emitter.ts).                                       *)
(*                                                                         *)
(* The media sink (HTMLAudioElement) is a collaborator: it is modelled by  *)
(* the fields the controller reads and writes (src, paused, readyState,    *)
(* currentTime).  Readiness is the sink's decision and may change between  *)
(* any two controller steps.                                               *)
(*                                                                         *)
(* Async methods are split at their awaits.  An invocation that is         *)
(* suspended is a record in `tasks`; continuations that wait on an already *)
(* settled promise (microtasks) run before timers and before the           *)
(* completion of external work (fetch, streaming load, the play promise).  *)
(***************************************************************************)
EXTENDS Integers, Sequences, FiniteSets, TLC

\* ------------------------------------------------------------------ bounds
MaxQueue == 3
MaxTasks == 2
MaxTimers == 1
MaxEqBuilds == 2

\* --------------------------------------------------------------- constants
ReadyThreshold == 4

\* setVolume accepts 0 .. MaxVolume
MaxVolume == 100

\* PLAYER_CONSTANTS.DEVELOPMENT and the values of process.env.NODE_ENV
DEVELOPMENT == "development"
NodeEnvs == {DEVELOPMENT, "production"}

\* Volumes are counted in steps of 1 / VolumeSteps and playback rates in
\* steps of 1 / RateSteps (the PlaybackRate values are multiples of 1/4).
VolumeSteps == 2
RateSteps == 4
PlaybackRates == {4, 5, 8}

\* ------------------------------------------------------------------ tracks
\* A source is a sequence of fragments so that `includes('.m3u8')` is a test.
TrackA == [id |-> "a", source |-> <<"a", ".mp3">>]
TrackB == [id |-> "b", source |-> <<"b", ".mp3">>]
TrackH == [id |-> "h", source |-> <<"h", ".m3u8">>]
NoTrack == [id |-> "", source |-> <<>>]
Tracks == {TrackA, TrackB, TrackH}
NoSource == <<>>

LoopModes == {"OFF", "SINGLE", "QUEUE"}
PlaybackTypes == {"DEFAULT", "REVERSE", "SHUFFLE"}

\* PLAYBACK_STATES of the configuration module
TRACK_CHANGE == "trackchanged"
QUEUE_ENDED == "queueended"

\* ------------------------------------------------------- sequence helpers
\* variant of the filter that drops the first matching entry only
FilterOutId_First(q, id) ==
  IF \E i \in 1..Len(q) : q[i].id = id
  THEN LET i == CHOOSE i \in 1..Len(q) : q[i].id = id /\ \A j \in 1..(i - 1) : q[j].id # id
       IN SubSeq(q, 1, i - 1) \o SubSeq(q, i + 1, Len(q))
  ELSE q

\* Array.prototype.filter((t) => t.id !== id)
RECURSIVE FilterOutId(_, _)
FilterOutId(q, id) ==
  IF q = <<>> THEN <<>>
  ELSE IF Head(q).id = id THEN FilterOutId(Tail(q), id)
       ELSE <<Head(q)>> \o FilterOutId(Tail(q), id)

\* Array.prototype.findIndex((t) => t.id === id), 0-based, -1 when absent
FindIndexById(q, id) ==
  IF \E i \in 1..Len(q) : q[i].id = id
  THEN (CHOOSE i \in 1..Len(q) : q[i].id = id /\ \A j \in 1..(i - 1) : q[j].id # id) - 1
  ELSE -1

\* variant of reverse() that rotates the array by one place
ReverseSeq_Rotate(q) == IF q = <<>> THEN q ELSE Tail(q) \o <<Head(q)>>

\* Array.prototype.reverse()
ReverseSeq(q) == [i \in 1..Len(q) |-> q[Len(q) + 1 - i]]

\* q[i] for a 0-based index, NoTrack for `undefined`
At(q, i) == IF i >= 0 /\ i < Len(q) THEN q[i + 1] ELSE NoTrack

\* variant of the Fisher-Yates exchange that writes only one of the two slots
SwapAt_Overwrite(q, i, j) == [q EXCEPT ![i] = q[j]]

SwapAt(q, i, j) == [q EXCEPT ![i] = q[j], ![j] = q[i]]

\* variant of isValidArray that accepts the empty array
IsValidArray_Any(arr) == Len(arr) >= 0

\* ValidationUtils.isValidArray
IsValidArray(arr) == Len(arr) > 0

\* track.source.includes('.m3u8')
IsHlsSource(source) == \E i \in 1..Len(source) : source[i] = ".m3u8"

\* ------------------------------------------------- double-precision numbers
\* A positive double is m * 2^-(MantissaBits - 1 + s): m is an integer of
\* MantissaBits binary digits, held as a leading digit and four limbs of
\* LimbBits digits, most significant first.  The operators round to nearest,
\* ties to even, as the IEEE 754 arithmetic of the number type does.
MantissaBits == 53

LimbBits == (MantissaBits - 1) \div 4

LimbBase == 2 ^ LimbBits

DoubleZero == [zero |-> TRUE, m |-> <<0, 0, 0, 0, 0>>, s |-> 0]

\* m + a for a small a >= 0, the carries taken up through the limbs
AddLow(m, a) ==
  LET t4 == m[5] + a
      t3 == m[4] + t4 \div LimbBase
      t2 == m[3] + t3 \div LimbBase
      t1 == m[2] + t2 \div LimbBase
      t0 == m[1] + t1 \div LimbBase
  IN <<t0, t1 % LimbBase, t2 % LimbBase, t3 % LimbBase, t4 % LimbBase>>

\* m * f for a small integer f, the leading limb left as large as it gets
MulLimbs(m, f) ==
  LET t4 == m[5] * f
      t3 == m[4] * f + t4 \div LimbBase
      t2 == m[3] * f + t3 \div LimbBase
      t1 == m[2] * f + t2 \div LimbBase
      t0 == m[1] * f + t1 \div LimbBase
  IN <<t0, t1 % LimbBase, t2 % LimbBase, t3 % LimbBase, t4 % LimbBase>>

\* one limb of the long division of r / den, and the remainder after it
DivLimb(r, den) == [q |-> (r * LimbBase) \div den, r |-> (r * LimbBase) % den]

\* the double nearest to num / den, for 0 <= num <= den
DoubleQuotient(num, den) ==
  IF num = 0 THEN DoubleZero
  ELSE LET s == CHOOSE k \in 0..LimbBits : den <= num * 2 ^ k /\ num * 2 ^ k < 2 * den
           d1 == DivLimb(num * 2 ^ s - den, den)
           d2 == DivLimb(d1.r, den)
           d3 == DivLimb(d2.r, den)
           d4 == DivLimb(d3.r, den)
           up == \/ 2 * d4.r > den
                 \/ 2 * d4.r = den /\ d4.q % 2 = 1
       IN [zero |-> FALSE,
           m |-> AddLow(<<1, d1.q, d2.q, d3.q, d4.q>>, IF up THEN 1 ELSE 0),
           s |-> s]

\* the element of a one-element set; {F(v) : v \in {e}} computes e once
The(S) == CHOOSE v \in S : TRUE

\* the exact product p (limbs, the leading one below 2 * LimbBase) rounded to
\* MantissaBits digits
RoundLimbs(p, s) ==
  LET extra == CHOOSE k \in 0..LimbBits : 2 ^ k <= p[1] /\ p[1] < 2 ^ (k + 1)
      rounded(unit, dropped) ==
        LET up == /\ unit > 1
                  /\ \/ 2 * dropped > unit
                     \/ 2 * dropped = unit /\ (p[5] \div unit) % 2 = 1
        IN AddLow([p EXCEPT ![5] = p[5] - dropped], IF up THEN unit ELSE 0)
  IN [zero |-> FALSE,
      m |-> The({rounded(unit, p[5] % unit) : unit \in {2 ^ extra}}),
      s |-> s]

\* the double nearest to x * f, for an integer f in 1 .. LimbBase \div 2
DoubleTimes(x, f) ==
  IF x.zero THEN DoubleZero
  ELSE The({RoundLimbs(p, x.s) : p \in {MulLimbs(x.m, f)}})

\* Math.round(x) for a double 0 <= x < LimbBase: floor(x + 1/2)
MathRound(x) ==
  IF x.zero THEN 0
  ELSE IF x.s = 0 THEN x.m[1] + (x.m[2] \div (LimbBase \div 2))
  ELSE (x.m[1] \div (2 ^ x.s)) + ((x.m[1] \div (2 ^ (x.s - 1))) % 2)

\* ------------------------------------------------------------ QueueManager
\* shuffleArray: Fisher-Yates, i from length-1 down to 1, j random in 0..i.
\* The set of arrays the random choices can produce.
RECURSIVE ShuffleFrom(_, _)
ShuffleFrom(arr, i) ==
  IF i <= 0 THEN {arr}
  ELSE UNION { ShuffleFrom(SwapAt(arr, i + 1, j + 1), i - 1) : j \in 0..i }

ShuffleArray(arr) == ShuffleFrom(arr, Len(arr) - 1)

\* QueueManager.setQueue on a valid array: the queues it can leave behind
QmSetQueue(tracks, playbackType) ==
  CASE playbackType = "DEFAULT" -> {tracks}
    [] playbackType = "REVERSE" -> {ReverseSeq(tracks)}
    [] playbackType = "SHUFFLE" -> ShuffleArray(tracks)
    [] OTHER -> {tracks}

\* variant of shuffleQueue without the swap that pins the current track
ShuffleQueue_NoPin(queue, currentTrackId) == ShuffleArray(queue)

\* QueueManager.shuffleQueue(currentTrackId): the queues the random choices
\* can leave behind; currentTrackId = "" stands for a call without argument
ShuffleQueue(queue, currentTrackId) ==
  LET currentIndex == IF currentTrackId # "" THEN FindIndexById(queue, currentTrackId) ELSE -1
      Pinned(shuffled) ==
        LET newIndex == FindIndexById(shuffled, currentTrackId)
        IN IF currentIndex > -1 /\ newIndex > -1 /\ newIndex # currentIndex
           THEN SwapAt(shuffled, currentIndex + 1, newIndex + 1)
           ELSE shuffled
  IN {Pinned(shuffled) : shuffled \in ShuffleArray(queue)}

\* variant of moveTrack that exchanges the two entries
MoveTrack_Swap(queue, fromIndex, toIndex) == SwapAt(queue, fromIndex + 1, toIndex + 1)

\* QueueManager.moveTrack: splice out, splice in
MoveTrack(queue, fromIndex, toIndex) ==
  LET track == queue[fromIndex + 1]
      rest == [k \in 1..(Len(queue) - 1) |-> IF k <= fromIndex THEN queue[k] ELSE queue[k + 1]]
  IN [k \in 1..Len(queue) |-> IF k <= toIndex THEN rest[k]
                               ELSE IF k = toIndex + 1 THEN track
                               ELSE rest[k - 1]]

\* variant of getNextTrackIndex whose QUEUE case does not wrap
GetNextTrackIndex_NoWrap(len, currentIndex, loopMode) ==
  CASE loopMode = "SINGLE" -> currentIndex
    [] loopMode = "QUEUE" -> currentIndex + 1
    [] OTHER -> IF currentIndex + 1 < len THEN currentIndex + 1 ELSE -1

\* QueueManager.getNextTrackIndex
GetNextTrackIndex(len, currentIndex, loopMode) ==
  CASE loopMode = "SINGLE" -> currentIndex
    [] loopMode = "QUEUE" -> IF currentIndex + 1 >= len THEN 0 ELSE currentIndex + 1
    [] OTHER -> IF currentIndex + 1 < len THEN currentIndex + 1 ELSE -1

\* QueueManager.getPreviousTrackIndex
GetPreviousTrackIndex(currentIndex) == IF currentIndex > 0 THEN currentIndex - 1 ELSE -1

\* ------------------------------------------------------------------- state
VARIABLES
  playbackQueue,          \* AudioHeadless.playbackQueue (<<>> while undefined)
  queueDefined,           \* FALSE until playbackQueue is first assigned
  currentTrackIndex,
  originalPlaybackQueue,
  isShuffleEnabled,
  currentLoopMode,
  mediaFetchSet,          \* mediaFetchFunction has been assigned
  qmQueue,                \* QueueManager.queue
  hlsManager,             \* an HlsManager was created by initialize()
  nativeHls,              \* audioElement.canPlayType('application/vnd.apple.mpegurl')
  isEqualizerEnabled,
  equalizerStatus,
  eqBuilds,               \* runs of Equalizer.initializeWithAudioElement
  sink,                   \* the audio element
  subs,                   \* eventMap['PLAYER_STATE'] of the EventEmitter
  lastTrackChanged,       \* currentTrack of the latest trackchanged emission
  tasks,                  \* suspended async invocations, in issue order
  timers,                 \* pending setTimeout callbacks of loadAndPlay, oldest first,
                          \* each named by the track whose loadAndPlay armed it
  listeners,              \* the keyed notifier's listeners[eventName]
  notifierState,          \* the keyed notifier's notifierState[eventName]
  equalizer,              \* the Equalizer singleton and its audio nodes
  statics,                \* what outlives one instance: process.env.NODE_ENV,
                          \* AudioHeadless.playerInstance and globalAudioElement
                          \* (set or not), and how many controllers and audio
                          \* elements were created
  trace                   \* what the latest step did, in program order

vars == <<playbackQueue, queueDefined, currentTrackIndex, originalPlaybackQueue,
          isShuffleEnabled, currentLoopMode, mediaFetchSet, qmQueue, hlsManager,
          nativeHls, isEqualizerEnabled, equalizerStatus, eqBuilds, sink, subs,
          lastTrackChanged, tasks, timers, listeners, notifierState, equalizer,
          statics, trace>>

\* state of other modules, which no controller method touches
sharedVars == <<listeners, notifierState, equalizer>>

queueVars == <<playbackQueue, queueDefined, currentTrackIndex, originalPlaybackQueue,
               isShuffleEnabled, qmQueue>>
configVars == <<hlsManager, nativeHls, isEqualizerEnabled, statics, sharedVars>>
eqVars == <<equalizerStatus, eqBuilds>>

\* ------------------------------------------------------------ trace events
Ev(e, a, b, n) == [e |-> e, a |-> a, b |-> b, n |-> n]
EvSink(prim) == Ev("sink", prim, "", 0)
EvLog(msg) == Ev("log", msg, "", 0)
EvWarn(msg) == Ev("warn", msg, "", 0)
EvThrow(op, msg) == Ev("throw", op, msg, 0)
EvDone(op, id, n) == Ev("done", op, id, n)
EvRejected(op, id, n) == Ev("rejected", op, id, n)
\* the value a synchronous call returned
EvReturn(op, n) == Ev("return", op, "", n)

Has(tr, ev) == \E i \in 1..Len(tr) : tr[i] = ev
HasKind(tr, e, a) == \E i \in 1..Len(tr) : tr[i].e = e /\ tr[i].a = a

\* ------------------------------------------------------------ EventEmitter
\* Callbacks the application may register.  cbOnce unsubscribes itself when
\* it is called; the others only observe.
\* cbThrow throws whenever it is called.
CallbackIds == {"cbA", "cbB", "cbOnce", "cbThrow"}
SelfUnsubscribing == {"cbOnce"}
Throwing == {"cbThrow"}

\* EventEmitter.unsubscribe: indexOf + splice(index, 1)
RECURSIVE RemoveFirst(_, _)
RemoveFirst(arr, cb) ==
  IF arr = <<>> THEN <<>>
  ELSE IF Head(arr) = cb THEN Tail(arr)
       ELSE <<Head(arr)>> \o RemoveFirst(Tail(arr), cb)

\* variant of emit without the try/catch around the callback
RECURSIVE EmitLoop_Uncaught(_, _, _)
EmitLoop_Uncaught(arr, i, called) ==
  IF i > Len(arr) THEN [subs |-> arr, called |-> called, thrown |-> FALSE]
  ELSE LET cb == arr[i]
           after == IF cb \in SelfUnsubscribing THEN RemoveFirst(arr, cb) ELSE arr
       IN IF cb \in Throwing
          THEN [subs |-> arr, called |-> Append(called, cb), thrown |-> TRUE]
          ELSE EmitLoop_Uncaught(after, i + 1, Append(called, cb))

\* EventEmitter.emit: for...of over the live array.  i is the iterator's
\* position (1-based), called the callbacks invoked so far; what a callback
\* throws is caught and reported, so the loop always runs to the end.
RECURSIVE EmitLoop(_, _, _)
EmitLoop(arr, i, called) ==
  IF i > Len(arr) THEN [subs |-> arr, called |-> called, thrown |-> FALSE]
  ELSE LET cb == arr[i]
           after == IF cb \in SelfUnsubscribing THEN RemoveFirst(arr, cb) ELSE arr
       IN EmitLoop(after, i + 1, Append(called, cb))

EmitterEmit(arr) == EmitLoop(arr, 1, <<>>)

\* ---------------------------------------------------------- keyed notifier
\* Event names a caller passes: '' fails validateEventName.
EventNames == {"", "ev"}

\* Data objects have the fields p and q; 0 stands for a field the object
\* does not have.
FieldNames == {"p", "q"}
EmptyObject == [k \in FieldNames |-> 0]

\* { ...old, ...data }
ShallowMerge(old, data) == [k \in FieldNames |-> IF data[k] # 0 THEN data[k] ELSE old[k]]

\* listeners[eventName] and notifierState[eventName] while undefined
NoListeners == [defined |-> FALSE, cbs |-> <<>>]
NoState == [defined |-> FALSE, value |-> EmptyObject]

\* Set.prototype.add: insertion order, no second entry for the same callback
SetAdd(cbs, cb) == IF \E i \in 1..Len(cbs) : cbs[i] = cb THEN cbs ELSE Append(cbs, cb)

\* the function listen returned, as it changes listeners[eventName]
ListenerRemoved(ls, cb) ==
  IF ~ls.defined THEN ls
  ELSE LET left == RemoveFirst(ls.cbs, cb)
       IN IF left = <<>> THEN NoListeners ELSE [defined |-> TRUE, cbs |-> left]

\* notify: for (const cb of listenerCbs) cb(...).  set is the Set object the
\* loop iterates, ls the current listeners[eventName], rest the entries the
\* iterator has not reached; an entry deleted before it is reached is not
\* visited, and what a callback throws ends the loop.
RECURSIVE NotifyLoop(_, _, _, _)
NotifyLoop(set, ls, rest, called) ==
  IF rest = <<>> THEN [set |-> set, listeners |-> ls, called |-> called, thrown |-> FALSE]
  ELSE LET cb == Head(rest)
       IN IF ~\E i \in 1..Len(set) : set[i] = cb
          THEN NotifyLoop(set, ls, Tail(rest), called)
          ELSE IF cb \in Throwing
          THEN [set |-> set, listeners |-> ls, called |-> Append(called, cb), thrown |-> TRUE]
          ELSE IF cb \in SelfUnsubscribing
          THEN NotifyLoop(RemoveFirst(set, cb), ListenerRemoved(ls, cb), Tail(rest),
                          Append(called, cb))
          ELSE NotifyLoop(set, ls, Tail(rest), Append(called, cb))

\* ---------------------------------------------------------------- Equalizer
\* Gains are integers in tenths of a dB and the master volume is in tenths.
\* Infinity stands for the number Infinity, which no finite gain reaches.
BandCount == 10
MinGain == -120
MaxGain == 120
MaxBoost == 120
DefaultBoost == 60
FullVolume == 10
Infinity == 1000000

Max(a, b) == IF a >= b THEN a ELSE b
Min(a, b) == IF a <= b THEN a ELSE b

\* ValidationUtils.isValidNumber on a number
IsValidNumber(num) == num # Infinity /\ num # -Infinity

EQUALIZER_PRESETS ==
  [FLAT |-> <<0, 0, 0, 0, 0, 0, 0, 0, 0, 0>>,
   BASS_BOOSTER |-> <<24, 18, 12, 5, 0, 0, 0, 0, 0, 0>>,
   ROCK |-> <<32, 25, -6, -8, -3, 4, 9, 11, 11, 11>>]

\* an AudioParam: its value and the target of its last setTargetAtTime
Param(v) == [value |-> v, target |-> v]

\* param.setTargetAtTime(target, currentTime, timeConstant)
SetTargetAtTime(param, target) == [param EXCEPT !.target = target]

\* the nodes initializeWithAudioElement creates
FreshNodes(eq) ==
  [eq EXCEPT !.built = TRUE,
             !.bands = [i \in 1..BandCount |-> Param(0)],
             !.bass = Param(0),
             !.master = Param(FullVolume)]

\* no Equalizer was constructed: Equalizer.equalizerInstance is undefined
NoEqualizer ==
  [created |-> FALSE, hasContext |-> FALSE, contextState |-> "closed", contextStatus |-> "",
   built |-> FALSE, bands |-> [i \in 1..BandCount |-> Param(0)], bass |-> Param(0),
   master |-> Param(FullVolume)]

\* Math.max(-12, Math.min(12, gainValue))
ClampGain(gainValue) == Max(MinGain, Min(MaxGain, gainValue))

\* variant of the loop of setCustomEQ that leaves a band alone when its new gain is 0
CustomBands_SkipZero(bands, gains) ==
  [i \in 1..BandCount |->
     IF IsValidNumber(gains[i]) /\ gains[i] # 0
     THEN SetTargetAtTime(bands[i], ClampGain(gains[i]))
     ELSE bands[i]]

\* the loop of setCustomEQ over the bands
CustomBands(bands, gains) ==
  [i \in 1..BandCount |->
     IF IsValidNumber(gains[i])
     THEN SetTargetAtTime(bands[i], ClampGain(gains[i]))
     ELSE bands[i]]

\* variant of setCustomEQ that applies the gains it has when the length is wrong
CustomEQ_AnyLength(eq, gains) ==
  IF ~IsValidArray(gains) THEN [error |-> "invalidGains", eq |-> eq]
  ELSE IF ~eq.built THEN [error |-> "TypeError", eq |-> eq]
  ELSE [error |-> "",
        eq |-> [eq EXCEPT !.bands =
                  [i \in 1..BandCount |->
                     IF i <= Len(gains) /\ IsValidNumber(gains[i])
                     THEN SetTargetAtTime(@[i], ClampGain(gains[i]))
                     ELSE @[i]]]]

\* setCustomEQ(gains): the error it throws ("" for none) and the equalizer after
CustomEQ(eq, gains) ==
  IF ~IsValidArray(gains) THEN [error |-> "invalidGains", eq |-> eq]
  ELSE IF ~eq.built THEN [error |-> "TypeError", eq |-> eq]
  ELSE IF Len(gains) # BandCount THEN [error |-> "gainCount", eq |-> eq]
  ELSE [error |-> "", eq |-> [eq EXCEPT !.bands = CustomBands(@, gains)]]

\* variant of setPreset that falls back to the flat response for an unknown name
Preset_FlatFallback(eq, presetName) ==
  IF presetName \notin DOMAIN EQUALIZER_PRESETS
  THEN CustomEQ(eq, EQUALIZER_PRESETS["FLAT"])
  ELSE CustomEQ(eq, EQUALIZER_PRESETS[presetName])

\* setPreset(presetName)
Preset(eq, presetName) ==
  IF presetName \notin DOMAIN EQUALIZER_PRESETS
  THEN [error |-> "presetNotFound", eq |-> eq]
  ELSE CustomEQ(eq, EQUALIZER_PRESETS[presetName])

\* setBassBoost(enabled, boostAmount)
BassBoost(eq, enabled, boostAmount) ==
  IF ~eq.hasContext \/ ~eq.built THEN [error |-> "TypeError", eq |-> eq]
  ELSE [error |-> "",
        eq |-> [eq EXCEPT !.bass =
                  SetTargetAtTime(@, IF enabled THEN Max(0, Min(MaxBoost, boostAmount)) ELSE 0)]]

\* setMasterVolume(volume)
MasterVolume(eq, volume) ==
  IF ~IsValidNumber(volume) THEN [error |-> "invalidVolume", eq |-> eq]
  ELSE IF ~eq.hasContext \/ ~eq.built THEN [error |-> "TypeError", eq |-> eq]
  ELSE [error |-> "",
        eq |-> [eq EXCEPT !.master = SetTargetAtTime(@, Max(0, Min(FullVolume, volume)))]]

\* reset()
ResetGains(eq) ==
  IF ~eq.hasContext \/ ~eq.built THEN [error |-> "TypeError", eq |-> eq]
  ELSE [error |-> "",
        eq |-> [eq EXCEPT !.bands = [i \in 1..BandCount |-> SetTargetAtTime(@[i], 0)],
                          !.bass = SetTargetAtTime(@, 0),
                          !.master = SetTargetAtTime(@, FullVolume)]]

\* new Equalizer() on a host whose AudioContext comes up in the state
\* context, or that has no Web Audio API ("none")
NewEqualizer(eq, context) ==
  IF eq.created THEN eq
  ELSE IF context = "none"
  THEN [eq EXCEPT !.created = TRUE, !.contextStatus = "CLOSED"]
  ELSE [eq EXCEPT !.created = TRUE, !.hasContext = TRUE,
                  !.contextState = context, !.contextStatus = "RUNNING"]

\* initializeWithAudioElement(audioElement); ok: the host created the nodes
WithAudioElement(eq, ok) ==
  IF eq.hasContext /\ ok THEN [FreshNodes(eq) EXCEPT !.contextStatus = "RUNNING"]
  ELSE [eq EXCEPT !.contextStatus = "CLOSED"]

\* status(): the equalizer after the call (a suspended context may resume)
AfterStatus(eq, resumed) ==
  IF eq.hasContext /\ eq.contextState = "suspended" /\ resumed
  THEN [eq EXCEPT !.contextState = "running"]
  ELSE eq

\* getCurrentGains()
GetCurrentGains(eq) == [i \in 1..BandCount |-> eq.bands[i].value]

\* the targets the bands were last given
TargetGains(eq) == [i \in 1..BandCount |-> eq.bands[i].target]

\* The audio engine has rendered for many time constants of the ramp: the
\* parameter has the value of its target.
Approach(param) == [param EXCEPT !.value = param.target]

Settled(eq) ==
  /\ \A i \in 1..BandCount : eq.bands[i].value = eq.bands[i].target
  /\ eq.bass.value = eq.bass.target
  /\ eq.master.value = eq.master.target

\* getLatestState(eventName) for a valid name
GetLatestState == notifierState

\* --------------------------------------------------------------- the sink
\* new Audio(): no source, paused, volume 1 and playback rate 1
SinkInit ==
  [src |-> NoSource, paused |-> TRUE, readyState |-> 0, currentTime |-> 0,
   volume |-> DoubleQuotient(1, 1), playbackRate |-> RateSteps]

Log(s, ev) == [s EXCEPT !.tr = Append(@, ev)]

\* audioElement.src = source
SinkSetSrc(s, source) ==
  Log([s EXCEPT !.sink = [@ EXCEPT !.src = source, !.readyState = 0, !.currentTime = 0]],
      EvSink("src"))

\* audioElement.load()
SinkLoad(s) ==
  Log([s EXCEPT !.sink = [@ EXCEPT !.readyState = 0, !.currentTime = 0]], EvSink("load"))

\* audioElement.pause()
SinkPause(s) == Log([s EXCEPT !.sink = [@ EXCEPT !.paused = TRUE]], EvSink("pause"))

\* audioElement.currentTime = 0
SinkRewind(s) == Log([s EXCEPT !.sink = [@ EXCEPT !.currentTime = 0]], EvSink("seek"))

\* audioElement.play(): an accepted call starts playback at once, a refused
\* one (no user gesture) leaves the element as it is; the promise settles later.
SinkPlay(s, accepted) ==
  Log([s EXCEPT !.sink = [@ EXCEPT !.paused = IF accepted THEN FALSE ELSE @]], EvSink("play"))

\* ------------------------------------------------- controller, synchronous
\* The part of the controller state the playback paths read and write,
\* threaded through the statements of one synchronous run.
Cur(first) ==
  [idx |-> currentTrackIndex, sink |-> sink, subs |-> subs, ltc |-> lastTrackChanged,
   fetch |-> mediaFetchSet, eqStatus |-> equalizerStatus, eqBuilds |-> eqBuilds,
   timers |-> timers, tr |-> first]

Commit(s) ==
  /\ currentTrackIndex' = s.idx
  /\ sink' = s.sink
  /\ subs' = s.subs
  /\ lastTrackChanged' = s.ltc
  /\ mediaFetchSet' = s.fetch
  /\ equalizerStatus' = s.eqStatus
  /\ eqBuilds' = s.eqBuilds
  /\ timers' = s.timers
  /\ trace' = s.tr

\* getCurrentState().currentTrack: playbackQueue?.[currentTrackIndex] || null
CurrentTrackOf(q, idx) == At(q, idx)

\* getCurrentState().playbackState
PlaybackStateOf(sk) == IF sk.paused THEN "paused" ELSE "playing"

\* emitStateChange(partial): ps = "" when the partial state carries no
\* playbackState, track = NoTrack when it carries no currentTrack.
EmitStateChange(s, ps, track) ==
  LET state == [playbackState |-> IF ps = "" THEN PlaybackStateOf(s.sink) ELSE ps,
                currentTrack |-> IF track = NoTrack
                                 THEN CurrentTrackOf(playbackQueue, s.idx) ELSE track]
      run == EmitterEmit(s.subs)
  IN [s EXCEPT !.subs = run.subs,
               !.ltc = IF state.playbackState = TRACK_CHANGE THEN state.currentTrack ELSE @,
               !.tr = Append(@, Ev("emit", state.playbackState, state.currentTrack.id,
                                   Len(s.subs) - Len(run.called)))]

\* updateCurrentTrackIndex
UpdateCurrentTrackIndex(s, track) ==
  IF IsValidArray(playbackQueue)
  THEN LET index == FindIndexById(playbackQueue, track.id)
       IN IF index > -1 THEN [s EXCEPT !.idx = index] ELSE s
  ELSE s

\* stop()
DoStop(s) == IF ~s.sink.paused THEN SinkRewind(SinkPause(s)) ELSE s

\* reset()
DoReset(s) == SinkSetSrc(DoStop(s), NoSource)

\* HlsManager.loadMedia(track) after detachMedia(): the streaming source is
\* attached to the sink and starts loading the manifest.
HlsLoadMedia(s, track) ==
  [s EXCEPT !.sink = [@ EXCEPT !.src = track.source, !.readyState = 0, !.currentTime = 0]]

\* initializeEqualizer(): status is what the host audio engine allows
InitializeEqualizer(s, outcome) ==
  [s EXCEPT !.eqBuilds = IF @ < MaxEqBuilds THEN @ + 1 ELSE @,
            !.eqStatus = outcome,
            !.tr = Append(@, Ev("eq", "build", outcome, 0))]

\* variant of loadTrack that calls the load primitive before the state pulse
LoadTrackEnd_LoadFirst(s, track) ==
  LET loaded == [s EXCEPT !.sink = [@ EXCEPT !.readyState = 0, !.currentTime = 0],
                          !.tr = Append(@, EvSink("load"))]
  IN EmitStateChange(loaded, TRACK_CHANGE, track)

\* loadTrack, lines 295-305: state pulse, then the load primitive
LoadTrackEnd(s, track) == SinkLoad(EmitStateChange(s, TRACK_CHANGE, track))

\* marks the steps that run a part of loadTrack(track)
InLoadTrack(s, track) == Log(s, Ev("in", "loadTrack", track.id, 0))

\* result of running a method up to its next await or its end
Res(s, pc) == [s |-> s, pc |-> pc]

\* variant of loadHlsStream that only warns when no HlsManager exists
LoadHlsStream_NoReset(s, track) ==
  IF ~hlsManager
  THEN [s |-> [s EXCEPT !.tr = Append(@, EvWarn("hlsNotEnabled"))], pc |-> "hlsReturn"]
  ELSE [s |-> HlsLoadMedia([s EXCEPT !.tr = @ \o <<Ev("hls", "detachMedia", "", 0),
                                                  Ev("hls", "loadMedia", track.id, 0)>>], track),
        pc |-> "hlsLoad"]

\* loadHlsStream up to its await
LoadHlsStream(s, track) ==
  IF ~hlsManager
  THEN Res(DoReset(Log(s, EvWarn("hlsNotEnabled"))), "hlsReturn")
  ELSE Res(HlsLoadMedia(Log(Log(s, Ev("hls", "detachMedia", "", 0)),
                            Ev("hls", "loadMedia", track.id, 0)), track), "hlsLoad")

\* variant of loadTrack that cancels the pending auto-play timers
LoadTrackBegin_CancelTimers(s, track) ==
  LET s1 == UpdateCurrentTrackIndex(InLoadTrack([s EXCEPT !.timers = <<>>], track), track)
  IN IF IsHlsSource(track.source) /\ ~nativeHls
     THEN LoadHlsStream(s1, track)
     ELSE Res(LoadTrackEnd(SinkSetSrc(s1, track.source), track), "done")

\* loadTrack from its first line up to its first await, or to its end
LoadTrackBegin(s, track) ==
  LET s1 == UpdateCurrentTrackIndex(InLoadTrack(s, track), track)
  IN IF IsHlsSource(track.source) /\ ~nativeHls
     THEN LoadHlsStream(s1, track)
     ELSE Res(LoadTrackEnd(SinkSetSrc(s1, track.source), track), "done")

\* loadAndPlay, lines 329-333
LoadAndPlayLoad(s, target) ==
  IF target = NoTrack
  THEN Res(Log(s, EvThrow("loadAndPlay", "noTrack")), "thrown")
  ELSE LET r == LoadTrackBegin(s, target)
       IN IF r.pc = "done" THEN Res(r.s, "lapAwait") ELSE r

\* loadAndPlay's target: track || (playbackQueue?.length > 0 ? playbackQueue[0] : undefined)
TargetTrack(track) ==
  IF track # NoTrack THEN track
  ELSE IF Len(playbackQueue) > 0 THEN playbackQueue[1] ELSE NoTrack

\* loadAndPlay from its first line up to its first await
LoadAndPlayBegin(s, track, fetchGiven) ==
  LET target == TargetTrack(track)
  IN IF fetchGiven /\ Len(target.source) > 0
     THEN Res(Log([s EXCEPT !.fetch = TRUE], Ev("fetch", "call", target.id, 0)), "fetch")
     ELSE LoadAndPlayLoad(s, target)

\* loadAndPlay, lines 336-343: schedule the delayed auto-play
LoadAndPlayEnd(s, track) ==
  IF s.sink.readyState >= ReadyThreshold
  THEN Log([s EXCEPT !.timers = Append(@, track.id)], Ev("timer", "set", track.id, 0))
  ELSE s

\* variant of play()'s guard that accepts a sink one readiness level short
CanPlay_Lenient(sk) == sk.paused /\ sk.readyState >= ReadyThreshold - 1 /\ sk.src # NoSource

\* play(), line 376
CanPlay(sk) == sk.paused /\ sk.readyState >= ReadyThreshold /\ sk.src # NoSource

\* play(), lines 385-387
PlayEqualizer(s, outcome) ==
  IF isEqualizerEnabled /\ s.eqStatus = "IDEAL" THEN InitializeEqualizer(s, outcome) ELSE s

\* play() up to its await on the sink
PlayBegin(s, accepted, outcome) ==
  IF CanPlay(s.sink)
  THEN Res(SinkPlay(s, accepted), "playAwait")
  ELSE Res(PlayEqualizer(s, outcome), "done")

\* variant of play() whose catch block throws the rejection again
PlayEnd_Rethrow(s, resolved, outcome) ==
  IF resolved THEN PlayEqualizer(Log(s, EvLog("playbackStarted")), outcome)
  ELSE Log(s, EvThrow("play", "playbackFailed"))

\* play() after the sink's promise settled
PlayEnd(s, resolved, outcome) ==
  PlayEqualizer(Log(s, IF resolved THEN EvLog("playbackStarted") ELSE EvWarn("playbackFailed")),
                outcome)

\* the timer callback of loadAndPlay after `await this.play()`
TimerEnd(s, outcome) ==
  IF isEqualizerEnabled THEN InitializeEqualizer(s, outcome) ELSE s

\* ---------------------------------------------------- suspended invocations
\* from: currentTrackIndex when the method was called; later: the track of
\* the latest load call issued while this one was suspended (NoTrack if none)
Task(op, pc, track, idx, accepted, hls, eq) ==
  [op |-> op, pc |-> pc, track |-> track, idx |-> idx, from |-> currentTrackIndex,
   later |-> NoTrack, accepted |-> accepted, hls |-> hls, eq |-> eq]

\* Awaits on a promise that is already settled: their continuation is a
\* microtask.  The other awaits wait for the outside world.
MicroPcs == {"hlsReturn", "lapAwait", "navAwait", "timerAwait", "initAwait"}
IsMicro(t) == t.pc \in MicroPcs \/ (t.pc = "playAwait" /\ ~t.accepted)
MicroPending == \E i \in 1..Len(tasks) : IsMicro(tasks[i])

\* operations that go through loadAndPlay and may arm its timer
LapOps == {"loadAndPlay", "playNext", "playPrevious", "playTrackAt"}
TimerRoom ==
  Len(timers) + Cardinality({i \in 1..Len(tasks) : tasks[i].op \in LapOps}) < MaxTimers

RemoveAt(seq, i) == SubSeq(seq, 1, i - 1) \o SubSeq(seq, i + 1, Len(seq))

Ended(pc) == pc \in {"done", "thrown"}

\* the method returned (its promise resolved) or threw (its promise rejected)
WithDone(r, op, track, from) ==
  IF r.pc = "done" THEN Log(r.s, EvDone(op, track.id, from))
  ELSE IF r.pc = "thrown" THEN Log(r.s, EvRejected(op, track.id, from))
  ELSE r.s

\* calls that load a track
LoadOps == LapOps \cup {"loadTrack"}

\* a load call of track was issued: the suspended load calls are overtaken
Overtake(ts, op, track) ==
  IF op \in LoadOps
  THEN [i \in 1..Len(ts) |-> IF ts[i].op \in LoadOps THEN [ts[i] EXCEPT !.later = track]
                                                     ELSE ts[i]]
  ELSE ts

\* a call of an async method: it runs to its first await
StartAsync(r, op, track, idx, accepted, hls, eq) ==
  /\ Commit(WithDone(r, op, track, currentTrackIndex))
  /\ tasks' = IF Ended(r.pc) THEN Overtake(tasks, op, track)
              ELSE Append(Overtake(tasks, op, track),
                          Task(op, r.pc, track, idx, accepted, hls, eq))

\* the continuation of task i: it runs to the next await
Continue(i, r) ==
  /\ Commit(LET s == WithDone(r, tasks[i].op, tasks[i].track, tasks[i].from)
            IN IF Ended(r.pc) /\ tasks[i].later # NoTrack
               THEN Log(s, Ev("overtaken", tasks[i].op, tasks[i].later.id, 0))
               ELSE s)
  /\ tasks' = IF Ended(r.pc) THEN RemoveAt(tasks, i)
              ELSE [tasks EXCEPT ![i].pc = r.pc]

\* variables no playback path writes
restVars == <<playbackQueue, queueDefined, originalPlaybackQueue, isShuffleEnabled,
              currentLoopMode, qmQueue, hlsManager, nativeHls, isEqualizerEnabled,
              statics, sharedVars>>

\* ---------------------------------------------------------- initial state
\* The controller right after `new AudioHeadless()`.
Constructed(env, made) ==
  /\ playbackQueue = <<>>
  /\ queueDefined = FALSE
  /\ currentTrackIndex = 0
  /\ originalPlaybackQueue = <<>>
  /\ isShuffleEnabled = FALSE
  /\ currentLoopMode = "OFF"
  /\ mediaFetchSet = FALSE
  /\ qmQueue = <<>>
  /\ hlsManager = FALSE
  /\ nativeHls \in BOOLEAN
  /\ isEqualizerEnabled = FALSE
  /\ equalizerStatus = "IDEAL"
  /\ eqBuilds = 0
  /\ sink = SinkInit
  /\ subs = <<>>
  /\ lastTrackChanged = NoTrack
  /\ tasks = <<>>
  /\ timers = <<>>
  /\ listeners = NoListeners
  /\ notifierState = NoState
  /\ equalizer = NoEqualizer
  /\ statics = [nodeEnv |-> env, playerInstance |-> made, globalAudioElement |-> made,
                controllers |-> IF made THEN 1 ELSE 0,
                audioElements |-> IF made THEN 1 ELSE 0]
  /\ trace = <<>>

Init == Constructed("production", TRUE)

\* the module was loaded in some environment and nothing is constructed yet;
\* the instance fields show the values the constructor will give them
InitModule == \E env \in NodeEnvs : Constructed(env, FALSE)

\* ------------------------------------------------------- media loading
\* loadTrack(track)
LoadTrack(track) ==
  /\ Len(tasks) < MaxTasks
  /\ StartAsync(LoadTrackBegin(Cur(<<>>), track),
                "loadTrack", track, 0, FALSE, FALSE, FALSE)
  /\ UNCHANGED restVars

\* loadAndPlay(track, fetchFunction); track = NoTrack for a call without track
LoadAndPlay(track, withFetch) ==
  /\ Len(tasks) < MaxTasks
  /\ TimerRoom
  /\ StartAsync(LoadAndPlayBegin(Cur(<<>>), track, withFetch),
                "loadAndPlay", TargetTrack(track), 0, FALSE, FALSE, FALSE)
  /\ UNCHANGED restVars

\* the fetch function's promise resolves: loadAndPlay goes on at line 329
ResolveFetch(i) ==
  /\ i \in 1..Len(tasks)
  /\ tasks[i].pc = "fetch"
  /\ ~MicroPending
  /\ Continue(i, LoadAndPlayLoad(Cur(<<>>), tasks[i].track))
  /\ UNCHANGED restVars

\* loadTrack goes on after `await this.loadHlsStream(track)`
ResumeLoadTrack(i) ==
  /\ i \in 1..Len(tasks)
  /\ \/ tasks[i].pc = "hlsReturn"
     \/ tasks[i].pc = "hlsLoad" /\ ~MicroPending
  /\ Continue(i, Res(LoadTrackEnd(InLoadTrack(Cur(<<>>), tasks[i].track), tasks[i].track),
                     IF tasks[i].op = "loadTrack" THEN "done" ELSE "lapAwait"))
  /\ UNCHANGED restVars

\* loadAndPlay goes on after `await this.loadTrack(targetTrack)`
ResumeLoadAndPlay(i) ==
  /\ i \in 1..Len(tasks)
  /\ tasks[i].pc = "lapAwait"
  /\ Continue(i, Res(LoadAndPlayEnd(Cur(<<>>), tasks[i].track),
                     IF tasks[i].op = "loadAndPlay" THEN "done" ELSE "navAwait"))
  /\ UNCHANGED restVars

\* ------------------------------------------------------ playback control
\* play()
Play(accepted, outcome) ==
  /\ Len(tasks) < MaxTasks
  /\ StartAsync(PlayBegin(Cur(<<>>), accepted, outcome),
                "play", NoTrack, 0, accepted, FALSE, FALSE)
  /\ UNCHANGED restVars

\* the sink's play promise settles; a playback that was paused meanwhile
\* is reported as a rejection
SettlePlay(i, outcome) ==
  /\ i \in 1..Len(tasks)
  /\ tasks[i].pc = "playAwait"
  /\ tasks[i].accepted => ~MicroPending
  /\ Continue(i, Res(PlayEnd(Cur(<<>>), tasks[i].accepted /\ ~sink.paused, outcome),
                     IF tasks[i].op = "play" THEN "done" ELSE "timerAwait"))
  /\ UNCHANGED restVars

\* the 950 ms timer of loadAndPlay fires: `await this.play()`
TimerFire(accepted, outcome) ==
  /\ timers # <<>>
  /\ ~MicroPending
  /\ Len(tasks) < MaxTasks
  /\ LET s0 == [Cur(<<Ev("timer", "fire", Head(timers), 0)>>) EXCEPT !.timers = Tail(@)]
         r == PlayBegin(s0, accepted, outcome)
     IN StartAsync(Res(r.s, IF r.pc = "done" THEN "timerAwait" ELSE r.pc),
                   "timer", NoTrack, 0, accepted, FALSE, FALSE)
  /\ UNCHANGED restVars

\* the timer callback goes on after `await this.play()`
ResumeTimer(i, outcome) ==
  /\ i \in 1..Len(tasks)
  /\ tasks[i].pc = "timerAwait"
  /\ Continue(i, Res(TimerEnd(Cur(<<>>), outcome), "done"))
  /\ UNCHANGED restVars

\* pause()
Pause ==
  /\ Commit(IF ~sink.paused THEN SinkPause(Cur(<<>>))
            ELSE Cur(<<>>))
  /\ UNCHANGED <<restVars, tasks>>

\* stop()
Stop ==
  /\ Commit(DoStop(Cur(<<>>)))
  /\ UNCHANGED <<restVars, tasks>>

\* ------------------------------------------------------ queue management
playVars == <<sink, subs, lastTrackChanged, mediaFetchSet, equalizerStatus, eqBuilds,
              timers, tasks>>

\* setQueue(tracks, playbackType): clearQueue(), then the QueueManager's order
SetQueue(tracks, playbackType) ==
  /\ queueDefined' = TRUE
  /\ currentTrackIndex' = 0
  /\ IF ~IsValidArray(tracks)
     THEN /\ playbackQueue' = <<>>
          /\ originalPlaybackQueue' = <<>>
          /\ isShuffleEnabled' = FALSE
          /\ qmQueue' = qmQueue
          /\ trace' = <<EvWarn("invalidTracks")>>
     ELSE /\ qmQueue' \in QmSetQueue(tracks, playbackType)
          /\ playbackQueue' = qmQueue'
          /\ isShuffleEnabled' = (playbackType = "SHUFFLE")
          /\ originalPlaybackQueue' = IF playbackType = "SHUFFLE" THEN tracks ELSE <<>>
          /\ trace' = <<>>
  /\ UNCHANGED <<playVars, currentLoopMode, configVars>>

\* addToQueue(tracks)
AddToQueue(tracksArray) ==
  /\ Len(playbackQueue) + Len(tracksArray) <= MaxQueue
  /\ playbackQueue' = IF queueDefined THEN playbackQueue \o tracksArray ELSE tracksArray
  /\ queueDefined' = TRUE
  /\ trace' = <<>>
  /\ UNCHANGED <<currentTrackIndex, originalPlaybackQueue, isShuffleEnabled, qmQueue,
                 playVars, currentLoopMode, configVars>>

\* removeFromQueue(trackId)
RemoveFromQueue(trackId) ==
  /\ playbackQueue' = IF queueDefined THEN FilterOutId(playbackQueue, trackId)
                      ELSE playbackQueue
  /\ trace' = <<>>
  /\ UNCHANGED <<queueDefined, currentTrackIndex, originalPlaybackQueue, isShuffleEnabled,
                 qmQueue, playVars, currentLoopMode, configVars>>

\* clearQueue()
ClearQueue ==
  /\ playbackQueue' = <<>>
  /\ queueDefined' = TRUE
  /\ currentTrackIndex' = 0
  /\ originalPlaybackQueue' = <<>>
  /\ isShuffleEnabled' = FALSE
  /\ trace' = <<>>
  /\ UNCHANGED <<qmQueue, playVars, currentLoopMode, configVars>>

\* variant of enableShuffle that takes no snapshot when shuffle is turned on
EnableShuffle_NoSnapshot(enabled) ==
  /\ IF enabled /\ ~isShuffleEnabled /\ queueDefined /\ IsValidArray(playbackQueue)
     THEN /\ qmQueue' \in QmSetQueue(playbackQueue, "SHUFFLE")
          /\ playbackQueue' = qmQueue'
          /\ isShuffleEnabled' = TRUE
          /\ trace' = <<>>
          /\ UNCHANGED originalPlaybackQueue
     ELSE IF ~enabled /\ isShuffleEnabled
     THEN /\ playbackQueue' = originalPlaybackQueue
          /\ isShuffleEnabled' = FALSE
          /\ trace' = <<>>
          /\ UNCHANGED <<originalPlaybackQueue, qmQueue>>
     ELSE /\ trace' = <<>>
          /\ UNCHANGED <<playbackQueue, originalPlaybackQueue, isShuffleEnabled, qmQueue>>
  /\ UNCHANGED <<queueDefined, currentTrackIndex, playVars, currentLoopMode, configVars>>

\* enableShuffle(enabled)
EnableShuffle(enabled) ==
  /\ IF enabled /\ ~isShuffleEnabled
     THEN IF ~queueDefined
          THEN \* [...undefined] is a TypeError
               /\ trace' = <<EvThrow("enableShuffle", "typeError")>>
               /\ UNCHANGED <<playbackQueue, originalPlaybackQueue, isShuffleEnabled, qmQueue>>
          ELSE IF ~IsValidArray(playbackQueue)
          THEN \* QueueManager.setQueue throws after the snapshot was taken
               /\ originalPlaybackQueue' = playbackQueue
               /\ trace' = <<EvThrow("enableShuffle", "invalidTracks")>>
               /\ UNCHANGED <<playbackQueue, isShuffleEnabled, qmQueue>>
          ELSE /\ originalPlaybackQueue' = playbackQueue
               /\ qmQueue' \in QmSetQueue(playbackQueue, "SHUFFLE")
               /\ playbackQueue' = qmQueue'
               /\ isShuffleEnabled' = TRUE
               /\ trace' = <<>>
     ELSE IF ~enabled /\ isShuffleEnabled
     THEN /\ playbackQueue' = originalPlaybackQueue
          /\ isShuffleEnabled' = FALSE
          /\ trace' = <<>>
          /\ UNCHANGED <<originalPlaybackQueue, qmQueue>>
     ELSE /\ trace' = <<>>
          /\ UNCHANGED <<playbackQueue, originalPlaybackQueue, isShuffleEnabled, qmQueue>>
  /\ UNCHANGED <<queueDefined, currentTrackIndex, playVars, currentLoopMode, configVars>>

\* setLoopMode(mode)
SetLoopMode(mode) ==
  /\ currentLoopMode' = mode
  /\ trace' = <<>>
  /\ UNCHANGED <<queueVars, playVars, configVars>>

\* variant of playNext() whose bound test is `>=`: it loads past the end
PlayNextBegin_OffByOne(s) ==
  LET nextIndex == s.idx + 1
  IN IF queueDefined /\ Len(playbackQueue) >= nextIndex
     THEN LoadAndPlayBegin(s, At(playbackQueue, nextIndex), mediaFetchSet)
     ELSE Res(EmitStateChange(DoStop(s), QUEUE_ENDED, NoTrack), "done")

\* variant of playPrevious() that also loads when called at index 0
PlayPreviousBegin_Reload(s) ==
  LET previousIndex == s.idx - 1
  IN IF previousIndex >= -1
     THEN LoadAndPlayBegin(s, At(playbackQueue, previousIndex), mediaFetchSet)
     ELSE Res(Log(s, EvLog("alreadyAtBeginning")), "done")

\* ------------------------------------------------------------- navigation
\* playNext(), lines 568-576, up to its await
PlayNextBegin(s) ==
  LET nextIndex == s.idx + 1
  IN IF queueDefined /\ Len(playbackQueue) > nextIndex
     THEN LoadAndPlayBegin(s, At(playbackQueue, nextIndex), mediaFetchSet)
     ELSE Res(EmitStateChange(DoStop(s), QUEUE_ENDED, NoTrack), "done")

\* the index playNext() assigns once loadAndPlay has returned
PlayNextTarget == currentTrackIndex + 1

PlayNext ==
  /\ Len(tasks) < MaxTasks
  /\ TimerRoom
  /\ LET nextTrack == At(playbackQueue, PlayNextTarget)
         target == IF nextTrack = NoTrack THEN NoTrack ELSE TargetTrack(nextTrack)
     IN StartAsync(PlayNextBegin(Cur(<<>>)), "playNext", target,
                   PlayNextTarget, FALSE, FALSE, FALSE)
  /\ UNCHANGED restVars

\* playPrevious(), lines 583-590, up to its await
PlayPreviousBegin(s) ==
  LET previousIndex == s.idx - 1
  IN IF previousIndex >= 0
     THEN LoadAndPlayBegin(s, At(playbackQueue, previousIndex), mediaFetchSet)
     ELSE Res(Log(s, EvLog("alreadyAtBeginning")), "done")

PlayPrevious ==
  /\ Len(tasks) < MaxTasks
  /\ TimerRoom
  /\ LET previousTrack == At(playbackQueue, currentTrackIndex - 1)
         target == IF currentTrackIndex - 1 >= 0 THEN TargetTrack(previousTrack) ELSE NoTrack
     IN StartAsync(PlayPreviousBegin(Cur(<<>>)), "playPrevious", target,
                   currentTrackIndex - 1, FALSE, FALSE, FALSE)
  /\ UNCHANGED restVars

\* playTrackAt(index), lines 598-603, up to its await
PlayTrackAtBegin(s, index) ==
  IF ~queueDefined
  THEN Res(Log(s, EvThrow("playTrackAt", "typeError")), "thrown")
  ELSE IF index < 0 \/ index >= Len(playbackQueue)
  THEN Res(Log(s, EvThrow("playTrackAt", "outOfBounds")), "thrown")
  ELSE LoadAndPlayBegin(s, At(playbackQueue, index), mediaFetchSet)

PlayTrackAt(index) ==
  /\ Len(tasks) < MaxTasks
  /\ TimerRoom
  /\ StartAsync(PlayTrackAtBegin(Cur(<<>>), index),
                "playTrackAt", At(playbackQueue, index), index, FALSE, FALSE, FALSE)
  /\ UNCHANGED restVars

\* the index assignment after `await this.loadAndPlay(...)`
NavigationEnd(s, index) == [s EXCEPT !.idx = index]

ResumeNavigation(i) ==
  /\ i \in 1..Len(tasks)
  /\ tasks[i].pc = "navAwait"
  /\ Continue(i, Res(NavigationEnd(Cur(<<>>), tasks[i].idx), "done"))
  /\ UNCHANGED restVars

\* ----------------------------------------------------------- initialize
\* initialize(config), lines 198-213: the configuration is stored, then the
\* method awaits initializeEventListeners()
Initialize(enableHls, enableEqualizer) ==
  /\ Len(tasks) < MaxTasks
  /\ isEqualizerEnabled' = enableEqualizer
  /\ tasks' = Append(tasks, Task("initialize", "initAwait", NoTrack, 0, FALSE,
                                 enableHls, enableEqualizer))
  /\ trace' = <<>>
  /\ UNCHANGED <<queueVars, currentLoopMode, hlsManager, nativeHls, statics, sharedVars,
                 sink, subs, lastTrackChanged, mediaFetchSet, eqVars, timers>>

\* initialize(config), lines 216-228, after the await of line 209
InitializeModules(i, outcome) ==
  /\ i \in 1..Len(tasks)
  /\ \/ tasks[i].pc = "initAwait"
     \/ tasks[i].pc = "initHls" /\ ~MicroPending
  /\ IF tasks[i].pc = "initAwait" /\ tasks[i].hls
     THEN \* new HlsManager(), then await hlsManager.initialize(...)
          /\ hlsManager' = TRUE
          /\ tasks' = [tasks EXCEPT ![i].pc = "initHls"]
          /\ trace' = <<Ev("hls", "initialize", "", 0)>>
          /\ UNCHANGED <<eqVars>>
     ELSE /\ hlsManager' = hlsManager
          /\ tasks' = RemoveAt(tasks, i)
          /\ IF tasks[i].eq
             THEN LET s == InitializeEqualizer(Cur(<<>>), outcome)
                  IN /\ equalizerStatus' = s.eqStatus
                     /\ eqBuilds' = s.eqBuilds
                     /\ trace' = Append(s.tr, EvDone("initialize", "", 0))
             ELSE /\ trace' = <<EvDone("initialize", "", 0)>>
                  /\ UNCHANGED eqVars
  /\ UNCHANGED <<queueVars, currentLoopMode, nativeHls, isEqualizerEnabled, statics,
                 sharedVars, sink, subs, lastTrackChanged, mediaFetchSet, timers>>

\* ------------------------------------------- volume, rate and position
\* getVolume(): Math.round(audioElement.volume * 100)
GetVolumeOf(sk) == The({MathRound(x) : x \in {DoubleTimes(sk.volume, MaxVolume)}})

GetVolume == GetVolumeOf(sink)

\* emitStateChange({field: value}): the current state with one field replaced
EmitStateField(s, field, value) ==
  Log(EmitStateChange(s, "", NoTrack), Ev("carries", field, "", value))

\* setVolume(volume), the argument counted in steps of 1 / VolumeSteps
SetVolume(volume) ==
  /\ statics.playerInstance
  /\ LET called == Cur(<<Ev("call", "setVolume", "", volume)>>)
     IN IF volume < 0 \/ volume > VolumeSteps * MaxVolume
        THEN Commit(Log(called, EvThrow("setVolume", "volumeRange")))
        ELSE LET normalizedVolume == DoubleQuotient(volume, VolumeSteps * MaxVolume)
                 assigned == Log([called EXCEPT !.sink.volume = normalizedVolume],
                                 EvSink("volume"))
             IN Commit(EmitStateField(assigned, "volume", volume))
  /\ UNCHANGED <<restVars, tasks>>

\* setPlaybackRate(rate), the argument counted in steps of 1 / RateSteps
SetPlaybackRate(rate) ==
  /\ statics.playerInstance
  /\ LET called == Cur(<<Ev("call", "setPlaybackRate", "", rate)>>)
         assigned == Log([called EXCEPT !.sink.playbackRate = rate], EvSink("playbackRate"))
     IN Commit(EmitStateField(assigned, "playbackRate", rate))
  /\ UNCHANGED <<restVars, tasks>>

\* seekToTime(seconds)
SeekToTime(seconds) ==
  /\ statics.playerInstance
  /\ LET called == Cur(<<Ev("call", "seekToTime", "", seconds)>>)
     IN IF seconds < 0
        THEN Commit(Log(called, EvThrow("seekToTime", "negative")))
        ELSE Commit(Log([called EXCEPT !.sink.currentTime = seconds], EvSink("seek")))
  /\ UNCHANGED <<restVars, tasks>>

\* ------------------------------------------------------------ construction
instanceVars == <<queueVars, currentLoopMode, hlsManager, nativeHls, isEqualizerEnabled,
                  playVars, sharedVars>>

\* the constructor; op names the caller's expression, and the value returned
\* is the number of the controller the caller gets
RunConstructor(op) ==
  IF statics.playerInstance
  THEN /\ trace' = <<EvWarn("multipleInstances"), EvReturn(op, statics.controllers)>>
       /\ UNCHANGED <<instanceVars, statics>>
  ELSE IF statics.nodeEnv # DEVELOPMENT /\ statics.globalAudioElement
  THEN /\ trace' = <<EvThrow("constructor", "multipleInstances")>>
       /\ UNCHANGED <<instanceVars, statics>>
  ELSE /\ statics' = [statics EXCEPT !.playerInstance = TRUE,
                                     !.globalAudioElement = TRUE,
                                     !.controllers = @ + 1,
                                     !.audioElements = @ + 1]
       /\ playbackQueue' = <<>>
       /\ queueDefined' = FALSE
       /\ currentTrackIndex' = 0
       /\ originalPlaybackQueue' = <<>>
       /\ isShuffleEnabled' = FALSE
       /\ currentLoopMode' = "OFF"
       /\ mediaFetchSet' = FALSE
       /\ qmQueue' = <<>>
       /\ hlsManager' = FALSE
       /\ isEqualizerEnabled' = FALSE
       /\ equalizerStatus' = "IDEAL"
       /\ eqBuilds' = 0
       /\ sink' = SinkInit
       /\ subs' = <<>>
       /\ lastTrackChanged' = NoTrack
       /\ trace' = <<EvReturn(op, statics.controllers + 1)>>
       /\ UNCHANGED <<nativeHls, tasks, timers, sharedVars>>

\* new AudioHeadless()
Construct ==
  /\ RunConstructor("constructor")

\* AudioHeadless.getInstance()
GetInstance ==
  IF ~statics.playerInstance
  THEN RunConstructor("getInstance")
  ELSE /\ trace' = <<EvReturn("getInstance", statics.controllers)>>
       /\ UNCHANGED <<instanceVars, statics>>

\* ------------------------------------------- QueueManager, called directly
qmRest == <<playbackQueue, queueDefined, currentTrackIndex, originalPlaybackQueue,
            isShuffleEnabled, playVars, currentLoopMode, configVars>>

\* QueueManager.setQueue(tracks, playbackType)
QueueManagerSetQueue(tracks, playbackType) ==
  /\ IF ~IsValidArray(tracks)
     THEN /\ trace' = <<EvThrow("QueueManager.setQueue", "invalidTracks")>>
          /\ qmQueue' = qmQueue
     ELSE /\ qmQueue' \in QmSetQueue(tracks, playbackType)
          /\ trace' = <<Ev("call", "QueueManager.setQueue", playbackType, Len(tracks))>>
  /\ UNCHANGED qmRest

\* QueueManager.addToQueue(tracks)
QueueManagerAddToQueue(tracksArray) ==
  /\ Len(qmQueue) + Len(tracksArray) <= MaxQueue
  /\ qmQueue' = qmQueue \o tracksArray
  /\ trace' = <<Ev("call", "QueueManager.addToQueue", "", Len(tracksArray))>>
  /\ UNCHANGED qmRest

\* QueueManager.removeFromQueue(trackId): returns whether anything was removed
QueueManagerRemoveFromQueue(trackId) ==
  /\ qmQueue' = FilterOutId(qmQueue, trackId)
  /\ trace' = <<Ev("call", "QueueManager.removeFromQueue", trackId, 0),
                EvReturn("QueueManager.removeFromQueue",
                         IF Len(qmQueue') < Len(qmQueue) THEN 1 ELSE 0)>>
  /\ UNCHANGED qmRest

\* QueueManager.clearQueue()
QueueManagerClearQueue ==
  /\ qmQueue' = <<>>
  /\ trace' = <<Ev("call", "QueueManager.clearQueue", "", 0)>>
  /\ UNCHANGED qmRest

\* QueueManager.moveTrack(fromIndex, toIndex): returns whether it moved
QueueManagerMoveTrack(fromIndex, toIndex) ==
  /\ IF fromIndex < 0 \/ fromIndex >= Len(qmQueue) \/ toIndex < 0 \/ toIndex >= Len(qmQueue)
     THEN /\ qmQueue' = qmQueue
          /\ trace' = <<Ev("call", "QueueManager.moveTrack", "", fromIndex),
                        EvReturn("QueueManager.moveTrack", 0)>>
     ELSE /\ qmQueue' = MoveTrack(qmQueue, fromIndex, toIndex)
          /\ trace' = <<Ev("call", "QueueManager.moveTrack", "", fromIndex),
                        EvReturn("QueueManager.moveTrack", 1)>>
  /\ UNCHANGED qmRest

\* QueueManager.shuffleQueue(currentTrackId)
QueueManagerShuffleQueue(currentTrackId) ==
  /\ qmQueue' \in ShuffleQueue(qmQueue, currentTrackId)
  /\ trace' = <<Ev("call", "QueueManager.shuffleQueue", currentTrackId, Len(qmQueue))>>
  /\ UNCHANGED qmRest

\* QueueManager.getNextTrackIndex(currentIndex, loopMode)
QueueManagerGetNextTrackIndex(currentIndex, loopMode) ==
  /\ trace' = <<Ev("call", "QueueManager.getNextTrackIndex", loopMode, currentIndex),
                EvReturn("QueueManager.getNextTrackIndex",
                         GetNextTrackIndex(Len(qmQueue), currentIndex, loopMode))>>
  /\ UNCHANGED <<qmQueue, qmRest>>

\* QueueManager.getPreviousTrackIndex(currentIndex)
QueueManagerGetPreviousTrackIndex(currentIndex) ==
  /\ trace' = <<Ev("call", "QueueManager.getPreviousTrackIndex", "", currentIndex),
                EvReturn("QueueManager.getPreviousTrackIndex",
                         GetPreviousTrackIndex(currentIndex))>>
  /\ UNCHANGED <<qmQueue, qmRest>>

\* QueueManager.findTrackIndex(trackId)
QueueManagerFindTrackIndex(trackId) ==
  /\ trace' = <<Ev("call", "QueueManager.findTrackIndex", trackId, 0),
                EvReturn("QueueManager.findTrackIndex", FindIndexById(qmQueue, trackId))>>
  /\ UNCHANGED <<qmQueue, qmRest>>

\* ------------------------------------------------------------ subscribers
\* onStateChange(callback): EventEmitter.subscribe pushes the callback
MaxSubs == 2

OnStateChange(cb) ==
  /\ Len(subs) < MaxSubs
  /\ subs' = Append(subs, cb)
  /\ trace' = <<>>
  /\ UNCHANGED <<queueVars, currentLoopMode, configVars, eqVars, sink, lastTrackChanged,
                 mediaFetchSet, tasks, timers>>

\* the function onStateChange returned: EventEmitter.unsubscribe
Unsubscribe(cb) ==
  /\ subs' = RemoveFirst(subs, cb)
  /\ trace' = <<>>
  /\ UNCHANGED <<queueVars, currentLoopMode, configVars, eqVars, sink, lastTrackChanged,
                 mediaFetchSet, tasks, timers>>

\* --------------------------------------------- the two buses, called directly
busRest == <<queueVars, currentLoopMode, hlsManager, nativeHls, isEqualizerEnabled, statics,
             equalizer, eqVars, sink, lastTrackChanged, mediaFetchSet, tasks, timers>>

\* one event per callback invoked, in the order of the calls
CallbackEvents(called, n) == [k \in 1..Len(called) |-> Ev("cb", called[k], "", n)]

\* console.error of emit's catch clause, once per callback that threw
ErrorEvents(called) ==
  [k \in 1..Len(SelectSeq(called, LAMBDA cb : cb \in Throwing)) |->
     Ev("error", "emitCallback", SelectSeq(called, LAMBDA cb : cb \in Throwing)[k], 0)]

\* eventEmitter.emit('PLAYER_STATE', data), data named by a number
Emit(data) ==
  /\ subs # <<>>
  /\ LET run == EmitterEmit(subs)
     IN /\ subs' = run.subs
        /\ trace' = <<Ev("call", "emit", "", data)>> \o CallbackEvents(run.called, data)
                     \o (IF run.thrown THEN <<EvThrow("emit", "callback")>>
                         ELSE ErrorEvents(run.called) \o <<EvReturn("emit", 0)>>)
  /\ UNCHANGED <<busRest, listeners, notifierState>>

\* the number that names a data object in an event
Encode(obj) == obj["p"] + 3 * obj["q"]

\* listen(eventName, callback, state)
Listen(eventName, cb, state) ==
  /\ IF eventName = ""
     THEN /\ trace' = <<Ev("call", "listen", cb, 0), EvThrow("listen", "invalidEventName")>>
          /\ UNCHANGED <<listeners, notifierState>>
     ELSE /\ trace' = <<Ev("call", "listen", cb, 0), EvReturn("listen", 0)>>
          /\ IF ~listeners.defined
             THEN /\ notifierState' = [defined |-> TRUE, value |-> state]
                  /\ listeners' = [defined |-> TRUE, cbs |-> <<cb>>]
             ELSE /\ listeners' = [listeners EXCEPT !.cbs = SetAdd(@, cb)]
                  /\ UNCHANGED notifierState
  /\ UNCHANGED <<busRest, subs>>

\* the function listen('ev', cb) returned; it may be called again after the
\* callback was removed
NotifierUnsubscribe(cb) ==
  /\ listeners' = ListenerRemoved(listeners, cb)
  /\ trace' = <<Ev("call", "unlisten", cb, 0),
                EvLog(IF listeners.defined THEN "removingListener" ELSE "eventNotFound")>>
  /\ UNCHANGED <<busRest, subs, notifierState>>

\* variant of notify that publishes null data as an empty object
Notify_NullPublishes(eventName, data) ==
  /\ LET call == Ev("call", "notify", eventName, IF data.null THEN -1 ELSE Encode(data.fields))
     IN IF eventName = ""
        THEN /\ trace' = <<call, EvThrow("notify", "invalidEventName")>>
             /\ UNCHANGED <<listeners, notifierState>>
        ELSE IF ~listeners.defined
        THEN /\ trace' = <<call, EvReturn("notify", 0)>>
             /\ UNCHANGED <<listeners, notifierState>>
        ELSE LET old == IF notifierState.defined THEN notifierState.value ELSE EmptyObject
                 merged == ShallowMerge(old, data.fields)
                 run == NotifyLoop(listeners.cbs, listeners, listeners.cbs, <<>>)
             IN /\ notifierState' = [defined |-> TRUE, value |-> merged]
                /\ listeners' = run.listeners
                /\ trace' = <<call, EvLog("notifying")>>
                             \o CallbackEvents(run.called, Encode(merged))
                             \o <<IF run.thrown THEN EvThrow("notify", "callback")
                                  ELSE EvReturn("notify", 0)>>
  /\ UNCHANGED <<busRest, subs>>

\* notify(eventName, data)
Notify(eventName, data) ==
  /\ LET call == Ev("call", "notify", eventName, IF data.null THEN -1 ELSE Encode(data.fields))
     IN IF eventName = ""
        THEN /\ trace' = <<call, EvThrow("notify", "invalidEventName")>>
             /\ UNCHANGED <<listeners, notifierState>>
        ELSE IF ~listeners.defined \/ data.null
        THEN /\ trace' = <<call, EvReturn("notify", 0)>>
             /\ UNCHANGED <<listeners, notifierState>>
        ELSE LET old == IF notifierState.defined THEN notifierState.value ELSE EmptyObject
                 merged == ShallowMerge(old, data.fields)
                 run == NotifyLoop(listeners.cbs, listeners, listeners.cbs, <<>>)
             IN /\ notifierState' = [defined |-> TRUE, value |-> merged]
                /\ listeners' = run.listeners
                /\ trace' = <<call, EvLog("notifying")>>
                             \o CallbackEvents(run.called, Encode(merged))
                             \o <<IF run.thrown THEN EvThrow("notify", "callback")
                                  ELSE EvReturn("notify", 0)>>
  /\ UNCHANGED <<busRest, subs>>

\* ------------------------------------------------------- the sink's own steps
ReadyLevels == {0, 3, 4}

\* the sink buffers the assigned source
SinkProgress(level) ==
  /\ sink.src # NoSource
  /\ level \in ReadyLevels
  /\ level > sink.readyState
  /\ sink' = [sink EXCEPT !.readyState = level]
  /\ trace' = <<>>
  /\ UNCHANGED <<queueVars, currentLoopMode, configVars, eqVars, subs, lastTrackChanged,
                 mediaFetchSet, tasks, timers>>

\* playback advances the position
SinkAdvance ==
  /\ ~sink.paused
  /\ sink.src # NoSource
  /\ sink.currentTime = 0
  /\ sink' = [sink EXCEPT !.currentTime = 1]
  /\ trace' = <<>>
  /\ UNCHANGED <<queueVars, currentLoopMode, configVars, eqVars, subs, lastTrackChanged,
                 mediaFetchSet, tasks, timers>>

\* ------------------------------------------------------------ continuations
EqOutcomes == {"RUNNING", "CLOSED"}

\* ------------------------------------------------------------------ inputs
PlainTracks == {TrackA, TrackB}
ShortLists == {<<TrackA, TrackB>>, <<>>}

Idle == tasks = <<>>

\* ------------------------------------------------------- specifications
\* SpecQueue: a caller that awaits every call uses the queue and navigation
\* operations; the sink never reports readiness.
NextQueue ==
  \/ \E tl \in ShortLists, pt \in PlaybackTypes : Idle /\ SetQueue(tl, pt)
  \/ \E t \in PlainTracks : Idle /\ AddToQueue(<<t>>)
  \/ \E t \in PlainTracks : Idle /\ RemoveFromQueue(t.id)
  \/ Idle /\ ClearQueue
  \/ \E e \in BOOLEAN : Idle /\ EnableShuffle(e)
  \/ \E t \in Tracks : Idle /\ LoadTrack(t)
  \/ Idle /\ PlayNext
  \/ Idle /\ PlayPrevious
  \/ \E k \in -1..MaxQueue : Idle /\ PlayTrackAt(k)
  \/ \E i \in 1..MaxTasks : ResumeLoadTrack(i) \/ ResumeLoadAndPlay(i) \/ ResumeNavigation(i)

SpecQueue == Init /\ [][NextQueue]_vars

\* SpecNav: a caller that awaits every call walks a queue of distinct
\* tracks with playNext and playPrevious while the sink buffers and plays.
NavLists == {<<TrackA, TrackB, TrackH>>, <<TrackB, TrackA>>}

NextNav ==
  \/ \E tl \in NavLists : Idle /\ SetQueue(tl, "DEFAULT")
  \/ \E t \in PlainTracks : Idle /\ RemoveFromQueue(t.id)
  \/ \E m \in LoopModes : Idle /\ SetLoopMode(m)
  \/ Idle /\ PlayNext
  \/ Idle /\ PlayPrevious
  \/ \E a \in BOOLEAN : Idle /\ Play(a, "RUNNING")
  \/ Idle /\ LoadAndPlay(TrackA, TRUE)
  \/ \E i \in 1..MaxTasks :
       \/ ResolveFetch(i)
       \/ ResumeLoadTrack(i)
       \/ ResumeLoadAndPlay(i)
       \/ ResumeNavigation(i)
       \/ SettlePlay(i, "RUNNING")
       \/ ResumeTimer(i, "RUNNING")
  \/ \E a \in BOOLEAN : TimerFire(a, "RUNNING")
  \/ SinkProgress(ReadyThreshold)
  \/ SinkAdvance

SpecNav == Init /\ [][NextNav]_vars

\* SpecLoad: a caller that awaits every call subscribes to the state bus,
\* may initialize streaming support, loads tracks and plays them.
LoadCallbacks == {"cbA", "cbOnce"}

NextLoad ==
  \/ \E cb \in LoadCallbacks : Idle /\ OnStateChange(cb)
  \/ Idle /\ Initialize(TRUE, FALSE)
  \/ \E t \in Tracks : Idle /\ LoadTrack(t)
  \/ \E a \in BOOLEAN : Idle /\ Play(a, "RUNNING")
  \/ \E i \in 1..MaxTasks :
       \/ InitializeModules(i, "RUNNING")
       \/ ResumeLoadTrack(i)
       \/ SettlePlay(i, "RUNNING")
  \/ SinkProgress(ReadyThreshold)

SpecLoad == Init /\ [][NextLoad]_vars

\* SpecRace: a caller that does not await its calls loads plain tracks of
\* the queue [A, B] with loadTrack and loadAndPlay while the sink buffers.
RaceReady ==
  /\ playbackQueue = <<TrackA, TrackB>>
  /\ subs = <<>>

NextRace ==
  \/ Idle /\ ~RaceReady /\ SetQueue(<<TrackA, TrackB>>, "DEFAULT")
  \/ \E t \in PlainTracks : RaceReady /\ LoadTrack(t)
  \/ \E t \in PlainTracks, f \in BOOLEAN : RaceReady /\ LoadAndPlay(t, f)
  \/ \E i \in 1..MaxTasks :
       \/ ResolveFetch(i)
       \/ ResumeLoadAndPlay(i)
       \/ SettlePlay(i, "RUNNING")
       \/ ResumeTimer(i, "RUNNING")
  \/ \E a \in BOOLEAN : TimerFire(a, "RUNNING")
  \/ SinkProgress(ReadyThreshold)
  \/ SinkAdvance

SpecRace == Init /\ [][NextRace]_vars

\* SpecPlay: a caller that awaits play() and loadAndPlay() but may pause or
\* stop at any time; the sink buffers by levels and the equalizer is enabled.
NextPlay ==
  \/ Idle /\ Initialize(FALSE, TRUE)
  \/ \E t \in PlainTracks : Idle /\ LoadAndPlay(t, FALSE)
  \/ \E a \in BOOLEAN, o \in EqOutcomes : Idle /\ Play(a, o)
  \/ Pause
  \/ Stop
  \/ \E i \in 1..MaxTasks, o \in EqOutcomes :
       \/ InitializeModules(i, o)
       \/ ResumeLoadAndPlay(i)
       \/ SettlePlay(i, o)
       \/ ResumeTimer(i, o)
  \/ \E a \in BOOLEAN, o \in EqOutcomes : TimerFire(a, o)
  \/ \E level \in ReadyLevels : SinkProgress(level)
  \/ SinkAdvance

SpecPlay == Init /\ [][NextPlay]_vars

\* SpecOrder: a caller builds, reorders and edits the queue and loads plain
\* tracks of it; nothing is ever suspended.
OrderLists == {<<TrackA, TrackB, TrackH>>, <<TrackB, TrackA>>, <<>>}

NextOrder ==
  \/ \E tl \in OrderLists, pt \in PlaybackTypes : SetQueue(tl, pt)
  \/ AddToQueue(<<TrackB>>)
  \/ \E t \in PlainTracks : RemoveFromQueue(t.id)
  \/ ClearQueue
  \/ \E e \in BOOLEAN : EnableShuffle(e)
  \/ \E t \in PlainTracks : LoadTrack(t)

SpecOrder == Init /\ [][NextOrder]_vars

\* SpecQm: the QueueManager of a fresh controller is called directly.
QmLists == {<<TrackA, TrackB, TrackH>>, <<TrackB, TrackA>>, <<>>}
PinnedIds == {"", TrackA.id, TrackH.id}

NextQm ==
  \/ \E tl \in QmLists, pt \in PlaybackTypes : QueueManagerSetQueue(tl, pt)
  \/ QueueManagerAddToQueue(<<TrackB>>)
  \/ \E t \in PlainTracks : QueueManagerRemoveFromQueue(t.id)
  \/ QueueManagerClearQueue
  \/ \E f, t \in -1..MaxQueue : QueueManagerMoveTrack(f, t)
  \/ \E id \in PinnedIds : QueueManagerShuffleQueue(id)
  \/ \E i \in -1..MaxQueue, m \in LoopModes : QueueManagerGetNextTrackIndex(i, m)
  \/ \E i \in -1..MaxQueue : QueueManagerGetPreviousTrackIndex(i)
  \/ \E t \in Tracks : QueueManagerFindTrackIndex(t.id)

SpecQm == Init /\ [][NextQm]_vars

\* SpecControl: from the loaded module, callers construct controllers in
\* either environment, subscribe, and set volume, rate and position.
VolumeInputs == {-1, 0, 29, 30, 113, 200, 201}
SeekInputs == {-1, 0, 1}

NextControl ==
  \/ Construct
  \/ GetInstance
  \/ \E cb \in CallbackIds : statics.playerInstance /\ OnStateChange(cb)
  \/ \E volume \in VolumeInputs : SetVolume(volume)
  \/ \E rate \in PlaybackRates : SetPlaybackRate(rate)
  \/ \E seconds \in SeekInputs : SeekToTime(seconds)

SpecControl == InitModule /\ [][NextControl]_vars

\* SpecBus: callers use the controller's EventEmitter and the keyed notifier
\* directly: they subscribe, unsubscribe and publish.
\* ------------------------------------------------ the Equalizer, called directly
eqRest == <<queueVars, currentLoopMode, hlsManager, nativeHls, isEqualizerEnabled, statics,
            listeners, notifierState, eqVars, sink, subs, lastTrackChanged, mediaFetchSet,
            tasks, timers>>

\* the events of a synchronous call that took argument n and ended with error
CallEvents(op, n, error) ==
  <<Ev("call", op, "", n),
    IF error = "" THEN EvReturn(op, 0) ELSE EvThrow(op, error)>>

\* new Equalizer(); context is the state of the AudioContext the host
\* creates, or "none" when it has no Web Audio API
EqualizerNew(context) ==
  /\ equalizer' = NewEqualizer(equalizer, context)
  /\ trace' = <<Ev("call", "newEqualizer", context, 0),
                IF equalizer.created THEN EvWarn("multipleEqualizers")
                ELSE IF context = "none" THEN Ev("error", "audioContext", "", 0)
                ELSE EvReturn("newEqualizer", 0)>>
  /\ UNCHANGED eqRest

\* initializeWithAudioElement(audioElement); ok: the host created the nodes
InitializeWithAudioElement(ok) ==
  /\ equalizer.created
  /\ LET done == equalizer.hasContext /\ ok
     IN /\ equalizer' = WithAudioElement(equalizer, ok)
        /\ trace' = <<Ev("call", "initializeWithAudioElement", "", 0),
                      IF done THEN EvReturn("initializeWithAudioElement", 0)
                      ELSE Ev("error", "audioNodes", "", 0)>>
  /\ UNCHANGED eqRest

\* the gain arrays the application passes: item k of CustomGains
CustomGains ==
  <<<<-200, 150, 0, 5, -5, 120, -120, 121, 7, 0>>,
    <<Infinity, 10, 0, 0, 0, 0, 0, 0, 0, 0>>,
    <<30, 30, 30>>,
    <<0, 0, 0, 0, 0, 0, 0, 0, 0, 0, 0>>,
    <<>>>>

PresetInputs == <<"FLAT", "ROCK", "JAZZ">>
BoostInputs == {DefaultBoost, 200}
VolumeLevels == <<5, 20, Infinity>>

\* setCustomEQ(CustomGains[k])
SetCustomEQ(k) ==
  /\ equalizer.created
  /\ LET r == CustomEQ(equalizer, CustomGains[k])
     IN /\ equalizer' = r.eq
        /\ trace' = CallEvents("setCustomEQ", k, r.error)
  /\ UNCHANGED eqRest

\* setPreset(PresetInputs[k])
SetPreset(k) ==
  /\ equalizer.created
  /\ LET r == Preset(equalizer, PresetInputs[k])
     IN /\ equalizer' = r.eq
        /\ trace' = CallEvents("setPreset", k, r.error)
  /\ UNCHANGED eqRest

\* setBassBoost(enabled, boostAmount)
SetBassBoost(enabled, boostAmount) ==
  /\ equalizer.created
  /\ LET r == BassBoost(equalizer, enabled, boostAmount)
     IN /\ equalizer' = r.eq
        /\ trace' = CallEvents("setBassBoost", IF enabled THEN boostAmount ELSE 0, r.error)
  /\ UNCHANGED eqRest

\* setMasterVolume(VolumeLevels[k])
SetMasterVolume(k) ==
  /\ equalizer.created
  /\ LET r == MasterVolume(equalizer, VolumeLevels[k])
     IN /\ equalizer' = r.eq
        /\ trace' = CallEvents("setMasterVolume", k, r.error)
  /\ UNCHANGED eqRest

\* reset()
EqualizerReset ==
  /\ equalizer.created
  /\ LET r == ResetGains(equalizer)
     IN /\ equalizer' = r.eq
        /\ trace' = CallEvents("reset", 0, r.error)
  /\ UNCHANGED eqRest

\* status(); resumed: the host let the suspended context resume
EqualizerStatus(resumed) ==
  /\ equalizer.created
  /\ equalizer' = AfterStatus(equalizer, resumed)
  /\ trace' = <<Ev("call", "status", "", 0),
                IF equalizer.hasContext THEN Ev("return", "status", equalizer.contextStatus, 0)
                ELSE EvThrow("status", "TypeError")>>
  /\ UNCHANGED eqRest

\* await destroy(); closed: audioContext.close() was fulfilled
EqualizerDestroy(closed) ==
  /\ equalizer.created
  /\ LET closing == equalizer.hasContext /\ equalizer.contextState # "closed"
     IN /\ equalizer' =
             IF closing /\ ~closed THEN equalizer
             ELSE [equalizer EXCEPT !.contextState = "closed", !.contextStatus = "CLOSED"]
        /\ trace' = <<Ev("call", "destroy", "", 0),
                      IF closing /\ ~closed THEN Ev("error", "cleanup", "", 0)
                      ELSE EvReturn("destroy", 0)>>
  /\ UNCHANGED eqRest

\* the audio engine renders while its context is running
EngineStep ==
  /\ equalizer.built
  /\ equalizer.contextState = "running"
  /\ ~Settled(equalizer)
  /\ equalizer' = [equalizer EXCEPT !.bands = [i \in 1..BandCount |-> Approach(@[i])],
                                    !.bass = Approach(@),
                                    !.master = Approach(@)]
  /\ UNCHANGED <<trace, eqRest>>

ContextStates == {"running", "suspended", "none"}

NextEq ==
  \/ \E context \in ContextStates : EqualizerNew(context)
  \/ \E ok \in BOOLEAN : InitializeWithAudioElement(ok)
  \/ \E k \in 1..Len(CustomGains) : SetCustomEQ(k)
  \/ \E k \in 1..Len(PresetInputs) : SetPreset(k)
  \/ \E enabled \in BOOLEAN, boostAmount \in BoostInputs : SetBassBoost(enabled, boostAmount)
  \/ \E k \in 1..Len(VolumeLevels) : SetMasterVolume(k)
  \/ EqualizerReset
  \/ \E resumed \in BOOLEAN : EqualizerStatus(resumed)
  \/ \E closed \in BOOLEAN : EqualizerDestroy(closed)
  \/ EngineStep

InitEq == Init /\ ~nativeHls

SpecEq == InitEq /\ [][NextEq]_vars

\* the engine keeps rendering while its context runs
SpecEqFair == SpecEq /\ WF_vars(EngineStep)

\* ------------------------------------ the controller with its Equalizer
\* initializeEqualizer(): new Equalizer(), initializeWithAudioElement and
\* status() inside the try; a throw of status() is caught and gives CLOSED
ControllerEqualizer(eq, context, ok, resumed) ==
  LET made == WithAudioElement(NewEqualizer(eq, context), ok)
  IN IF made.hasContext
     THEN [eq |-> AfterStatus(made, resumed), status |-> made.contextStatus, caught |-> FALSE]
     ELSE [eq |-> made, status |-> "CLOSED", caught |-> TRUE]

\* the events of one run of initializeEqualizer()
EqualizerEvents(r) ==
  <<Ev("eq", "build", r.status, 0)>>
    \o (IF r.caught THEN <<Ev("error", "initializeEqualizer", "", 0)>> ELSE <<>>)

eqControlRest == <<queueVars, currentLoopMode, hlsManager, nativeHls, statics, listeners,
                   notifierState, sink, subs, lastTrackChanged, mediaFetchSet, timers>>

\* initialize({enableEqualizer: true}) after the await of line 209, on a
\* host described by context, ok and resumed
InitializeModulesWithEqualizer(i, context, ok, resumed) ==
  /\ i \in 1..Len(tasks)
  /\ tasks[i].pc = "initAwait"
  /\ tasks[i].eq
  /\ ~tasks[i].hls
  /\ LET r == ControllerEqualizer(equalizer, context, ok, resumed)
     IN /\ equalizer' = r.eq
        /\ equalizerStatus' = r.status
        /\ eqBuilds' = IF eqBuilds < MaxEqBuilds THEN eqBuilds + 1 ELSE eqBuilds
        /\ trace' = <<Ev("call", "initializeModules", context, 0)>>
                      \o EqualizerEvents(r) \o <<EvDone("initialize", "", 0)>>
  /\ tasks' = RemoveAt(tasks, i)
  /\ UNCHANGED <<isEqualizerEnabled, eqControlRest>>

\* play() on a sink that cannot play: only lines 385-387 act
PlayWithEqualizer(context, ok, resumed) ==
  /\ ~CanPlay(sink)
  /\ LET r == ControllerEqualizer(equalizer, context, ok, resumed)
         builds == isEqualizerEnabled /\ equalizerStatus = "IDEAL"
     IN /\ equalizer' = IF builds THEN r.eq ELSE equalizer
        /\ equalizerStatus' = IF builds THEN r.status ELSE equalizerStatus
        /\ eqBuilds' = IF builds /\ eqBuilds < MaxEqBuilds THEN eqBuilds + 1 ELSE eqBuilds
        /\ trace' = <<Ev("call", "play", context, 0)>>
                      \o (IF builds THEN EqualizerEvents(r) ELSE <<>>)
                      \o <<EvDone("play", "", 0)>>
  /\ UNCHANGED <<isEqualizerEnabled, tasks, eqControlRest>>

\* a controller method that hands over to the Equalizer: r is what the
\* Equalizer's method does to the instance the controller holds
Delegated(op, n, r) ==
  /\ equalizer' = IF isEqualizerEnabled /\ equalizer.created THEN r.eq ELSE equalizer
  /\ trace' = CallEvents(op, n, IF ~isEqualizerEnabled THEN "notEnabled"
                                ELSE IF ~equalizer.created THEN "TypeError"
                                ELSE r.error)
  /\ UNCHANGED <<isEqualizerEnabled, eqVars, tasks, eqControlRest>>

\* setEqualizerPreset(PresetInputs[k])
SetEqualizerPreset(k) ==
  /\ Delegated("setEqualizerPreset", k, Preset(equalizer, PresetInputs[k]))

\* setCustomEqualizer(CustomGains[k])
SetCustomEqualizer(k) ==
  /\ Delegated("setCustomEqualizer", k, CustomEQ(equalizer, CustomGains[k]))

\* enableBassBoost(enabled, boost)
EnableBassBoost(enabled, boost) ==
  /\ Delegated("enableBassBoost", IF enabled THEN boost ELSE 0,
               BassBoost(equalizer, enabled, boost))

\* SpecEqControl: a controller is initialized with the equalizer enabled on
\* hosts with and without an audio engine, and its equalizer methods are called.
NextEqControl ==
  \/ Initialize(FALSE, TRUE)
  \/ \E i \in 1..MaxTasks, context \in ContextStates, ok \in BOOLEAN, resumed \in BOOLEAN :
       InitializeModulesWithEqualizer(i, context, ok, resumed)
  \/ \E context \in ContextStates, ok \in BOOLEAN, resumed \in BOOLEAN :
       PlayWithEqualizer(context, ok, resumed)
  \/ \E k \in 1..Len(PresetInputs) : SetEqualizerPreset(k)
  \/ \E k \in 1..Len(CustomGains) : SetCustomEqualizer(k)
  \/ \E enabled \in BOOLEAN, boost \in BoostInputs : EnableBassBoost(enabled, boost)

SpecEqControl == InitEq /\ [][NextEqControl]_vars

NotifierCallbacks == {"cbA", "cbOnce", "cbThrow"}
ListenStates == {EmptyObject, [p |-> 1, q |-> 1]}
NotifyData == {[null |-> TRUE, fields |-> EmptyObject],
               [null |-> FALSE, fields |-> [p |-> 2, q |-> 0]],
               [null |-> FALSE, fields |-> [p |-> 0, q |-> 2]]}

EmitterCallbacks == {"cbB", "cbOnce", "cbThrow"}

NextBus ==
  \/ \E cb \in EmitterCallbacks : OnStateChange(cb)
  \/ \E cb \in EmitterCallbacks : Unsubscribe(cb)
  \/ Emit(1)
  \/ \E name \in EventNames, cb \in NotifierCallbacks, state \in ListenStates :
       Listen(name, cb, state)
  \/ \E cb \in NotifierCallbacks : NotifierUnsubscribe(cb)
  \/ \E name \in EventNames, data \in NotifyData : Notify(name, data)

SpecBus == Init /\ [][NextBus]_vars

\* ------------------------------------------------------------------ claims
\* getQueue()
GetQueue == playbackQueue

\* C1: once every issued operation has returned, a non-empty queue has
\* 0 <= getCurrentTrackIndex() < getQueue().length.
C1_IndexWithinQueue ==
  (Idle /\ Len(GetQueue) > 0) =>
    (0 <= currentTrackIndex /\ currentTrackIndex < Len(GetQueue))

\* the events of the latest step that report the end of a call of op
Returned(op) == {k \in 1..Len(trace) : trace[k].e = "done" /\ trace[k].a = op}
Rejected(op) == {k \in 1..Len(trace) : trace[k].e = "rejected" /\ trace[k].a = op}
Emitted(ps) == \E k \in 1..Len(trace) : trace[k].e = "emit" /\ trace[k].a = ps
Invoked(prim) == \E k \in 1..Len(trace) : trace[k].e = "sink" /\ trace[k].a = prim

DistinctIds(q) == \A i, j \in 1..Len(q) : q[i].id = q[j].id => i = j

\* C2: loop OFF, n tracks with distinct ids, playNext() called at index i.
\* For i < n-1 the call returns with track i+1 loaded (its trackchanged pulse
\* is the latest one) and currentTrackIndex = i+1; for i = n-1 it returns in
\* the same step with nothing loaded, the index still n-1, the sink paused
\* and a queueended state emitted.  The call is never rejected.
C2_PlayNextLoopOff ==
  LET n == Len(playbackQueue)
      Valid(i) == currentLoopMode = "OFF" /\ DistinctIds(playbackQueue) /\ 0 <= i /\ i < n
  IN /\ \A k \in Returned("playNext") :
          LET i == trace[k].n
          IN Valid(i) =>
               IF i < n - 1
               THEN /\ currentTrackIndex = i + 1
                    /\ lastTrackChanged = playbackQueue[i + 2]
                    /\ ~Emitted(QUEUE_ENDED)
               ELSE /\ currentTrackIndex = n - 1
                    /\ sink.paused
                    /\ Emitted(QUEUE_ENDED)
                    /\ ~Emitted(TRACK_CHANGE)
                    /\ ~Invoked("load") /\ ~Invoked("src")
     /\ \A k \in Rejected("playNext") : ~Valid(trace[k].n)

\* the third playNext() on [A, B, H] from index 0 ended the queue
C2_Witness ==
  /\ playbackQueue = <<TrackA, TrackB, TrackH>>
  /\ currentLoopMode = "OFF"
  /\ \E k \in Returned("playNext") : trace[k].n = 2
  /\ Emitted(QUEUE_ENDED)
  /\ lastTrackChanged = TrackH

\* C3: loop QUEUE, playNext() called at the last index of a non-empty queue
\* returns with the track at index 0 loaded, currentTrackIndex = 0 and no
\* queueended state emitted.
C3_PlayNextWraps ==
  \A k \in Returned("playNext") :
    (currentLoopMode = "QUEUE" /\ Len(playbackQueue) > 0
       /\ trace[k].n = Len(playbackQueue) - 1) =>
      /\ currentTrackIndex = 0
      /\ lastTrackChanged = playbackQueue[1]
      /\ ~Emitted(QUEUE_ENDED)

\* C4: playPrevious() called at index 0 returns in the same step having only
\* written its diagnostic: no error, no emission, no sink primitive, index 0.
\* Called at index i > 0 with a track at i-1 it returns with that track
\* loaded and currentTrackIndex = i-1, and is never rejected.
C4_AfterPlayPrevious ==
  /\ \A k \in Returned("playPrevious") :
       LET i == trace[k].n
       IN IF i = 0
          THEN /\ trace = <<EvLog("alreadyAtBeginning"), EvDone("playPrevious", "", 0)>>
               /\ currentTrackIndex = 0
          ELSE (i > 0 /\ i - 1 < Len(playbackQueue)) =>
                 /\ currentTrackIndex = i - 1
                 /\ lastTrackChanged = playbackQueue[i]
  /\ \A k \in Rejected("playPrevious") :
       ~(trace[k].n >= 0 /\ trace[k].n - 1 < Len(playbackQueue))

\* a playPrevious() step at index 0 changes nothing but the diagnostics
C4_NoOpAtStart ==
  (PlayPrevious /\ currentTrackIndex = 0) =>
    UNCHANGED <<queueVars, currentLoopMode, sink, subs, lastTrackChanged, tasks, timers>>

C4_PlayPrevious == [][C4_NoOpAtStart]_vars /\ []C4_AfterPlayPrevious

\* playPrevious() was called at index 0 while the sink was playing
C4_Witness ==
  /\ trace = <<EvLog("alreadyAtBeginning"), EvDone("playPrevious", "", 0)>>
  /\ Len(playbackQueue) > 1
  /\ ~sink.paused

\* playPrevious() from index 2 returned at index 1
C4_WitnessBack ==
  /\ \E k \in Returned("playPrevious") : trace[k].n = 2
  /\ currentTrackIndex = 1

TrackOfId(id) == CHOOSE t \in Tracks \cup {NoTrack} : t.id = id

\* C6: when a load call that was overtaken by a later load call ends and no
\* call is pending any more, the sink's source, the last trackchanged track
\* and currentTrackIndex are those of the later call.
C6_LaterCallWins ==
  \A k \in 1..Len(trace) :
    (trace[k].e = "overtaken" /\ tasks = <<>>) =>
      LET later == TrackOfId(trace[k].b)
      IN /\ sink.src = later.source
         /\ lastTrackChanged = later
         /\ currentTrackIndex = FindIndexById(playbackQueue, later.id)

\* C7: a pending auto-play timer leaves the timer list only by firing, and
\* the oldest fires first; no load call removes it.
C7_TimerLeavesByFiring ==
  (Len(timers') < Len(timers)) =>
    /\ timers' = Tail(timers)
    /\ trace' # <<>>
    /\ trace'[1] = Ev("timer", "fire", Head(timers), 0)

C7_TimerNeverCancelled == [][C7_TimerLeavesByFiring]_vars

\* the timer armed by loadAndPlay(A) fired and called the play primitive
\* while B was the assigned track
C7_Witness ==
  /\ trace # <<>>
  /\ trace[1] = Ev("timer", "fire", TrackA.id, 0)
  /\ Invoked("play")
  /\ sink.src = TrackB.source
  /\ lastTrackChanged = TrackB

\* a step that runs play() from its first line: a call, or the timer callback
PlayCalled ==
  \E a \in BOOLEAN, o \in EqOutcomes : Play(a, o) \/ TimerFire(a, o)

NoError(tr) == \A k \in 1..Len(tr) : tr[k].e \notin {"throw", "rejected"}

\* C8: the play primitive is invoked only by play() and only on a paused
\* sink with a source and readyState >= 4; in any other sink state play()
\* ends without error and leaves the sink as it was.
C8_PlayStep ==
  LET ready == sink.paused /\ sink.src # NoSource /\ sink.readyState >= ReadyThreshold
  IN /\ HasKind(trace', "sink", "play") => (PlayCalled /\ ready)
     /\ (PlayCalled /\ ~ready) => (sink' = sink /\ NoError(trace'))
     /\ (~ready /\ \E a \in BOOLEAN, o \in EqOutcomes : Play(a, o)) =>
          \E k \in 1..Len(trace') : trace'[k].e = "done" /\ trace'[k].a = "play"

C8_PlayGuard == [][C8_PlayStep]_vars

\* play() returned at once on a sink that has a source but is one readiness
\* level short
C8_Witness ==
  /\ Returned("play") # {}
  /\ ~Invoked("play")
  /\ sink.paused
  /\ sink.src # NoSource
  /\ sink.readyState = ReadyThreshold - 1

\* the play promise of task i settles as a rejection
PlayRejects(i) ==
  /\ i \in 1..Len(tasks)
  /\ tasks[i].pc = "playAwait"
  /\ ~(tasks[i].accepted /\ ~sink.paused)
  /\ \E o \in EqOutcomes : SettlePlay(i, o)

\* C9: when the play primitive rejects, play() goes on without throwing,
\* writes its warning, and the sink is paused as before (reported as paused).
C9_RejectionStep ==
  (\E i \in 1..MaxTasks : PlayRejects(i)) =>
    /\ NoError(trace')
    /\ HasKind(trace', "warn", "playbackFailed")
    /\ sink' = sink
    /\ sink'.paused
    /\ PlaybackStateOf(sink') = "paused"

C9_RejectionHandled == [][C9_RejectionStep]_vars

\* a refused play() call returned
C9_Witness ==
  /\ HasKind(trace, "warn", "playbackFailed")
  /\ Returned("play") # {}
  /\ sink.paused
  /\ sink.src # NoSource

\* C10: loadTrack of the manifest track H without native support and without
\* an HlsManager is never rejected, and when it returns the sink has no
\* source and is paused.
C10_ManifestFallback ==
  (~hlsManager /\ ~nativeHls) =>
    \A k \in 1..Len(trace) :
      (trace[k].a = "loadTrack" /\ trace[k].b = TrackH.id) =>
        /\ trace[k].e # "rejected"
        /\ NoError(trace)
        /\ trace[k].e = "done" => (sink.src = NoSource /\ sink.paused)

\* loadTrack(H) returned after the fallback
C10_Witness ==
  /\ ~hlsManager /\ ~nativeHls
  /\ \E k \in Returned("loadTrack") : trace[k].b = TrackH.id
  /\ lastTrackChanged = TrackH
  /\ sink.src = NoSource
  /\ sink.paused

\* how often a track id occurs in a queue
CountId(q, id) == Cardinality({i \in 1..Len(q) : q[i].id = id})

\* a and b hold the same tracks, each as often
IsPermutation(a, b) ==
  /\ Len(a) = Len(b)
  /\ \A t \in Tracks : CountId(a, t.id) = CountId(b, t.id)

\* C11: enableShuffle(true) with shuffle off records the queue as the
\* original and leaves a permutation of it (with the flag on when the call
\* returns); enableShuffle(false) with shuffle on restores the recorded
\* sequence; the two other calls change neither queue, original nor flag.
C11_ShuffleStep ==
  /\ (EnableShuffle(TRUE) /\ ~isShuffleEnabled) =>
       /\ originalPlaybackQueue' = GetQueue
       /\ IsPermutation(GetQueue', GetQueue)
       /\ NoError(trace') => isShuffleEnabled'
  /\ (EnableShuffle(FALSE) /\ isShuffleEnabled) =>
       /\ GetQueue' = originalPlaybackQueue
       /\ ~isShuffleEnabled'
       /\ UNCHANGED originalPlaybackQueue
  /\ ((EnableShuffle(TRUE) /\ isShuffleEnabled) \/ (EnableShuffle(FALSE) /\ ~isShuffleEnabled)) =>
       UNCHANGED <<playbackQueue, originalPlaybackQueue, isShuffleEnabled>>

C11_Shuffle == [][C11_ShuffleStep]_vars

\* shuffle was turned on for a queue that addToQueue had extended, and the
\* shuffled order differs from the recorded one
C11_Witness ==
  /\ isShuffleEnabled
  /\ originalPlaybackQueue = <<TrackB, TrackA, TrackB>>
  /\ playbackQueue # originalPlaybackQueue

\* getCurrentState().currentTrack
CurrentTrack == CurrentTrackOf(playbackQueue, currentTrackIndex)

\* C12: removeFromQueue(id) of the track that is current and loaded in the
\* sink leaves no entry with that id, and afterwards the current track is
\* either none or the track the sink holds, never another queue entry.
C12_RemoveCurrentStep ==
  \A t \in PlainTracks :
    (/\ RemoveFromQueue(t.id)
     /\ CurrentTrack = t
     /\ lastTrackChanged = t
     /\ sink.src = t.source) =>
      /\ CountId(GetQueue', t.id) = 0
      /\ CurrentTrack' = NoTrack \/ CurrentTrack'.source = sink'.src

C12_RemoveCurrent == [][C12_RemoveCurrentStep]_vars

\* C13: setQueue(tracks, DEFAULT) on a non-empty list leaves getQueue() equal
\* to tracks, setQueue(tracks, REVERSE) leaves its exact reverse; nothing of
\* the queue held before remains.
C13_SetQueueStep ==
  \A tl \in OrderLists \ {<<>>} :
    /\ SetQueue(tl, "DEFAULT") => GetQueue' = tl
    /\ SetQueue(tl, "REVERSE") =>
         /\ Len(GetQueue') = Len(tl)
         /\ \A i \in 1..Len(tl) : GetQueue'[i] = tl[Len(tl) + 1 - i]
    /\ (SetQueue(tl, "DEFAULT") \/ SetQueue(tl, "REVERSE")) =>
         /\ ~isShuffleEnabled'
         /\ originalPlaybackQueue' = <<>>

C13_SetQueueOrder == [][C13_SetQueueStep]_vars

\* setQueue([A, B, H], REVERSE) replaced whatever was queued
C13_Witness ==
  /\ playbackQueue = <<TrackH, TrackB, TrackA>>
  /\ qmQueue = playbackQueue
  /\ ~isShuffleEnabled
  /\ originalPlaybackQueue = <<>>

\* C14: whatever the random choices, QueueManager.setQueue(tracks, SHUFFLE)
\* leaves a permutation of tracks and shuffleQueue(pinnedId?) a permutation
\* of the queue it shuffled: same length, every id as often as before.
C14_ShuffleStep ==
  /\ \A tl \in QmLists \ {<<>>} :
       QueueManagerSetQueue(tl, "SHUFFLE") => IsPermutation(qmQueue', tl)
  /\ \A id \in PinnedIds :
       QueueManagerShuffleQueue(id) => IsPermutation(qmQueue', qmQueue)

C14_ShufflePermutes == [][C14_ShuffleStep]_vars

\* shuffleQueue with a pinned track reordered a queue with a repeated track
C14_Witness ==
  /\ trace = <<Ev("call", "QueueManager.shuffleQueue", TrackA.id, 3)>>
  /\ qmQueue = <<TrackB, TrackB, TrackA>>

\* C15: QueueManager.setQueue with an empty list throws and leaves the queue
\* as it was, and no other QueueManager call throws.
C15_ThrowStep ==
  LET emptyCall == \E pt \in PlaybackTypes : QueueManagerSetQueue(<<>>, pt)
  IN /\ emptyCall => (qmQueue' = qmQueue /\ HasKind(trace', "throw", "QueueManager.setQueue"))
     /\ ~NoError(trace') => emptyCall

C15_OnlySetQueueThrows == [][C15_ThrowStep]_vars

\* setQueue([]) threw while three tracks were queued
C15_Witness ==
  /\ trace = <<EvThrow("QueueManager.setQueue", "invalidTracks")>>
  /\ Len(qmQueue) = 3

\* the index reached from i by k calls of getNextTrackIndex
RECURSIVE NextIndexTimes(_, _, _, _)
NextIndexTimes(len, i, loopMode, k) ==
  IF k = 0 THEN i
  ELSE NextIndexTimes(len, GetNextTrackIndex(len, i, loopMode), loopMode, k - 1)

\* C17: for a queue of n >= 1 tracks and 0 <= i < n, getNextTrackIndex(i, m)
\* returns i for SINGLE, i+1 or (at the end) 0 for QUEUE, i+1 or (at the
\* end) -1 for OFF; n calls in mode QUEUE lead back to i; the queue is
\* left as it was.
C17_NextIndexStep ==
  \A i \in 0..(Len(qmQueue) - 1), m \in LoopModes :
    QueueManagerGetNextTrackIndex(i, m) =>
      LET n == Len(qmQueue)
          r == trace'[2].n
      IN /\ qmQueue' = qmQueue
         /\ m = "SINGLE" => r = i
         /\ m = "QUEUE" => r = (IF i + 1 < n THEN i + 1 ELSE 0)
         /\ m = "QUEUE" => NextIndexTimes(n, i, m, n) = i
         /\ m = "OFF" => r = (IF i + 1 < n THEN i + 1 ELSE -1)

C17_NextIndex == [][C17_NextIndexStep]_vars

\* getNextTrackIndex wrapped around at the end of a three-track queue
C17_Witness ==
  /\ trace = <<Ev("call", "QueueManager.getNextTrackIndex", "QUEUE", 2),
               EvReturn("QueueManager.getNextTrackIndex", 0)>>
  /\ Len(qmQueue) = 3

\* C16: the controller's setQueue called with an empty track list throws
\* synchronously to its caller.
C16_EmptySetQueueStep ==
  (\E pt \in PlaybackTypes : SetQueue(<<>>, pt)) => HasKind(trace', "throw", "setQueue")

C16_EmptySetQueueThrows == [][C16_EmptySetQueueStep]_vars

\* C18: setVolume(v) with 0 <= v <= 100 ends without error and getVolume()
\* then returns Math.round(v); with v outside that range it throws, the
\* sink's volume stays as it was and no state is emitted.
C18_SetVolumeStep ==
  \A volume \in VolumeInputs :
    SetVolume(volume) =>
      IF 0 <= volume /\ volume <= VolumeSteps * MaxVolume
      THEN /\ NoError(trace')
           /\ GetVolume' = (2 * volume + VolumeSteps) \div (2 * VolumeSteps)
      ELSE /\ HasKind(trace', "throw", "setVolume")
           /\ sink'.volume = sink.volume
           /\ \A k \in 1..Len(trace') : trace'[k].e # "emit"

C18_SetVolume == [][C18_SetVolumeStep]_vars

\* the value the latest step's emission carries for a field
Carries(tr, field, value) ==
  /\ \E k \in 1..Len(tr) : tr[k].e = "emit"
  /\ Has(tr, Ev("carries", field, "", value))

\* C19: every setVolume, setPlaybackRate and seekToTime call that does not
\* throw emits a state that carries the value it set.
C19_SetterStep ==
  /\ \A volume \in VolumeInputs :
       (SetVolume(volume) /\ NoError(trace')) => Carries(trace', "volume", volume)
  /\ \A rate \in PlaybackRates :
       (SetPlaybackRate(rate) /\ NoError(trace')) => Carries(trace', "playbackRate", rate)
  /\ \A seconds \in SeekInputs :
       (SeekToTime(seconds) /\ NoError(trace')) => Carries(trace', "currentTime", seconds)

C19_SettersEmit == [][C19_SetterStep]_vars

\* C20: a construction while a controller exists throws outside the
\* development environment and, in it, warns and yields the existing
\* controller; there is never more than one controller or one audio element.
C20_ConstructionStep ==
  /\ (Construct /\ statics.playerInstance) =>
       IF statics.nodeEnv # DEVELOPMENT
       THEN HasKind(trace', "throw", "constructor")
       ELSE trace' = <<EvWarn("multipleInstances"),
                       EvReturn("constructor", statics.controllers)>>
  /\ statics'.controllers <= 1
  /\ statics'.audioElements <= 1

C20_Singleton == [][C20_ConstructionStep]_vars

\* the callbacks a step invoked, in the order of the calls
CalledIn(tr) ==
  LET cbs == SelectSeq(tr, LAMBDA ev : ev.e = "cb")
  IN [k \in 1..Len(cbs) |-> cbs[k].a]

\* the values the callbacks of a step were invoked with
ValuesIn(tr) == {tr[k].n : k \in {j \in 1..Len(tr) : tr[j].e = "cb"}}

NullData == [null |-> TRUE, fields |-> EmptyObject]

\* C21: notify(key, null) on a key with subscribers invokes no subscriber
\* and leaves the stored value (and the subscribers) of the key as they were.
C21_NullStep ==
  (Notify("ev", NullData) /\ listeners.defined) =>
    /\ CalledIn(trace') = <<>>
    /\ UNCHANGED <<notifierState, listeners>>
    /\ NoError(trace')

C21_NullPublish == [][C21_NullStep]_vars

\* null was published to a key with two subscribers and a stored value
C21_Witness ==
  /\ trace = <<Ev("call", "notify", "ev", -1), EvReturn("notify", 0)>>
  /\ Len(listeners.cbs) = 2
  /\ notifierState = [defined |-> TRUE, value |-> [p |-> 2, q |-> 1]]

\* C22: after notify(key, data) with non-null data the stored value is the
\* shallow merge of the value stored before with data, every subscriber of
\* the key was invoked once with it, and getLatestState(key) returns it,
\* with or without subscribers.
C22_PublishStep ==
  \A data \in NotifyData :
    (~data.null /\ Notify("ev", data)) =>
      LET old == IF notifierState.defined THEN notifierState.value ELSE EmptyObject
          merged == [k \in FieldNames |->
                       IF data.fields[k] # 0 THEN data.fields[k] ELSE old[k]]
      IN /\ GetLatestState' = [defined |-> TRUE, value |-> merged]
         /\ CalledIn(trace') = listeners.cbs
         /\ ValuesIn(trace') \subseteq {Encode(merged)}

C22_PublishMerges == [][C22_PublishStep]_vars

\* C23: once the function returned by subscribe / onStateChange / listen
\* was called for a callback, the next emission does not invoke that
\* callback, and an emission invokes the subscribers that are left in the
\* order of their registration.
C23_UnsubscribeStep ==
  /\ \A cb \in EmitterCallbacks :
       Unsubscribe(cb) => \A k \in 1..Len(EmitterEmit(subs').called) :
                            EmitterEmit(subs').called[k] # cb
  /\ \A cb \in NotifierCallbacks :
       NotifierUnsubscribe(cb) => \A k \in 1..Len(listeners'.cbs) : listeners'.cbs[k] # cb
  /\ (Emit(1) /\ \A k \in 1..Len(subs) : subs[k] \notin SelfUnsubscribing) =>
       CalledIn(trace') = subs

C23_Unsubscribed == [][C23_UnsubscribeStep]_vars

\* C24: in EventEmitter.emit a callback that throws keeps no later
\* subscriber from being invoked (a subscriber is passed over only behind a
\* callback that unsubscribed itself), and emit does not throw.
C24_EmitStep ==
  Emit(1) =>
    /\ NoError(trace')
    /\ \A i \in 1..Len(subs) :
         (\A j \in 1..(i - 1) : subs[j] \notin SelfUnsubscribing) =>
           /\ Len(CalledIn(trace')) >= i
           /\ CalledIn(trace')[i] = subs[i]

C24_EmitIsolates == [][C24_EmitStep]_vars

\* the throwing callback was invoked first and cbB after it
C24_Witness ==
  trace = <<Ev("call", "emit", "", 1), Ev("cb", "cbThrow", "", 1), Ev("cb", "cbB", "", 1),
            Ev("error", "emitCallback", "cbThrow", 0), EvReturn("emit", 0)>>

\* C25: in notify(key, data) a callback that throws keeps no other
\* subscriber of the key from being invoked with the merged value.
C25_NotifyStep ==
  \A data \in NotifyData :
    (~data.null /\ listeners.defined /\ Notify("ev", data)) =>
      CalledIn(trace') = listeners.cbs

C25_NotifyIsolates == [][C25_NotifyStep]_vars

\* ------------------------------------------------------- equalizer claims
\* setCustomEQ(CustomGains[k]) was the last call and it returned
CustomEQReturned(k) == trace = CallEvents("setCustomEQ", k, "")

\* clamp(g[i], -12, 12) for every band
ClampedGains(gains) == [i \in 1..BandCount |-> Max(MinGain, Min(MaxGain, gains[i]))]

\* C26: after setCustomEQ(g) with 10 values returned, with the engine
\* running and no later call, getCurrentGains() eventually is clamp(g[i], -12, 12)
\* in every band; values outside of the range are clamped.
C26_CustomConverges ==
  \A k \in {j \in 1..Len(CustomGains) : Len(CustomGains[j]) = BandCount} :
    (CustomEQReturned(k) /\ equalizer.contextState = "running")
      ~> \/ GetCurrentGains(equalizer) = ClampedGains(CustomGains[k])
         \/ ~CustomEQReturned(k)
         \/ equalizer.contextState # "running"

\* C27: setCustomEQ with an array of a length other than 10 throws and leaves
\* the equalizer, the target gains included, as it was; once the bands exist
\* the error is the one of the gains array.
C27_WrongLengthStep ==
  \A k \in {j \in 1..Len(CustomGains) : Len(CustomGains[j]) # BandCount} :
    SetCustomEQ(k) =>
      /\ Len(trace') = 2
      /\ trace'[2].e = "throw"
      /\ equalizer.built => trace'[2].b \in {"invalidGains", "gainCount"}
      /\ UNCHANGED equalizer

C27_WrongLength == [][C27_WrongLengthStep]_vars

\* three gains were passed while the targets were those of ROCK
C27_Witness ==
  /\ trace = CallEvents("setCustomEQ", 3, "gainCount")
  /\ TargetGains(equalizer) = EQUALIZER_PRESETS["ROCK"]

\* C28: a preset that was applied gives each of the 10 bands the preset's
\* gain as its target, whatever the targets were; FLAT after ROCK gives every
\* band the target 0, which the running engine then reaches.
C28_PresetStep ==
  /\ \A k \in {j \in 1..Len(PresetInputs) : PresetInputs[j] \in DOMAIN EQUALIZER_PRESETS} :
       (SetPreset(k) /\ trace' = CallEvents("setPreset", k, "")) =>
         TargetGains(equalizer') = EQUALIZER_PRESETS[PresetInputs[k]]
  /\ (EngineStep /\ TargetGains(equalizer) = EQUALIZER_PRESETS["FLAT"]) =>
       GetCurrentGains(equalizer') = [i \in 1..BandCount |-> 0]

C28_PresetOverwrites == [][C28_PresetStep]_vars

\* FLAT was applied while the bands had the gains of ROCK
C28_Witness ==
  /\ trace = CallEvents("setPreset", 1, "")
  /\ GetCurrentGains(equalizer) = EQUALIZER_PRESETS["ROCK"]
  /\ TargetGains(equalizer) = EQUALIZER_PRESETS["FLAT"]

\* C29: setPreset with a name that is not in the table throws "not found"
\* and changes nothing; with a name of the table it does what setCustomEQ
\* does with the preset's gains.
C29_PresetStep ==
  \A k \in 1..Len(PresetInputs) :
    SetPreset(k) =>
      IF PresetInputs[k] \in {"FLAT", "BASS_BOOSTER", "ROCK"}
      THEN LET r == CustomEQ(equalizer, EQUALIZER_PRESETS[PresetInputs[k]])
           IN /\ equalizer' = r.eq
              /\ trace' = CallEvents("setPreset", k, r.error)
      ELSE /\ trace' = CallEvents("setPreset", k, "presetNotFound")
           /\ UNCHANGED equalizer

C29_PresetLookup == [][C29_PresetStep]_vars

\* an unknown name was passed while the targets were those of ROCK
C29_Witness ==
  /\ trace = CallEvents("setPreset", 3, "presetNotFound")
  /\ TargetGains(equalizer) = EQUALIZER_PRESETS["ROCK"]

\* C30: a fulfilled destroy() leaves the status CLOSED, and while the
\* equalizer is closed setPreset, setCustomEQ, setBassBoost, setMasterVolume
\* and reset throw nothing and leave every parameter as it was.
C30_ClosedStep ==
  /\ EqualizerDestroy(TRUE) => equalizer'.contextStatus = "CLOSED"
  /\ (/\ equalizer.built
      /\ equalizer.contextState = "closed"
      /\ equalizer.contextStatus = "CLOSED"
      /\ \/ \E k \in 1..Len(PresetInputs) : SetPreset(k)
         \/ \E k \in 1..Len(CustomGains) : SetCustomEQ(k)
         \/ \E enabled \in BOOLEAN, boostAmount \in BoostInputs : SetBassBoost(enabled, boostAmount)
         \/ \E k \in 1..Len(VolumeLevels) : SetMasterVolume(k)
         \/ EqualizerReset)
     => /\ NoError(trace')
        /\ UNCHANGED equalizer

C30_ClosedNoOps == [][C30_ClosedStep]_vars

\* ---------------------------------------------------- QueueManager claims
\* the queue without its entry at position i (1-based)
Without(q, i) == [k \in 1..(Len(q) - 1) |-> IF k < i THEN q[k] ELSE q[k + 1]]

\* the entries of q whose id is not id, in the order they have in q
OthersInOrder(q, id) ==
  LET keep == {i \in 1..Len(q) : q[i].id # id}
      Nth(j) == CHOOSE i \in keep : Cardinality({n \in keep : n <= i}) = j
  IN [j \in 1..Cardinality(keep) |-> q[Nth(j)]]

\* C32: QueueManager.removeFromQueue(id) leaves no entry with that id, keeps
\* every other entry in its order, and returns true exactly when the queue
\* had an entry with that id.
C32_RemoveStep ==
  \A t \in PlainTracks :
    QueueManagerRemoveFromQueue(t.id) =>
      /\ CountId(qmQueue', t.id) = 0
      /\ qmQueue' = OthersInOrder(qmQueue, t.id)
      /\ trace'[2] = EvReturn("QueueManager.removeFromQueue",
                              IF CountId(qmQueue, t.id) > 0 THEN 1 ELSE 0)

C32_RemoveAll == [][C32_RemoveStep]_vars

\* the id b was removed and the tracks A and H are left, in their order
C32_Witness ==
  /\ trace = <<Ev("call", "QueueManager.removeFromQueue", "b", 0),
               EvReturn("QueueManager.removeFromQueue", 1)>>
  /\ qmQueue = <<TrackA, TrackH>>

\* C33: QueueManager.moveTrack(from, to) with both indices inside the queue
\* returns true and leaves the track of index from at index to, with the
\* other tracks in their order; with an index outside it returns false and
\* leaves the queue as it was.
C33_MoveStep ==
  \A f, t \in -1..MaxQueue :
    QueueManagerMoveTrack(f, t) =>
      IF f >= 0 /\ f < Len(qmQueue) /\ t >= 0 /\ t < Len(qmQueue)
      THEN /\ trace'[2] = EvReturn("QueueManager.moveTrack", 1)
           /\ Len(qmQueue') = Len(qmQueue)
           /\ qmQueue'[t + 1] = qmQueue[f + 1]
           /\ Without(qmQueue', t + 1) = Without(qmQueue, f + 1)
           /\ IsPermutation(qmQueue', qmQueue)
      ELSE /\ trace'[2] = EvReturn("QueueManager.moveTrack", 0)
           /\ qmQueue' = qmQueue

C33_MoveTrack == [][C33_MoveStep]_vars

\* the first track of a queue of three distinct tracks was moved behind the others
C33_Witness ==
  /\ trace = <<Ev("call", "QueueManager.moveTrack", "", 0), EvReturn("QueueManager.moveTrack", 1)>>
  /\ qmQueue = <<TrackB, TrackH, TrackA>>

\* C39: QueueManager.shuffleQueue(pinnedId) with an id whose first entry is
\* at index k leaves, whatever the random choices, an entry with that id at
\* index k.
C39_PinnedStep ==
  \A id \in PinnedIds \ {""} :
    (QueueManagerShuffleQueue(id) /\ FindIndexById(qmQueue, id) > -1) =>
      qmQueue'[FindIndexById(qmQueue, id) + 1].id = id

C39_PinnedStays == [][C39_PinnedStep]_vars

\* the queue was shuffled with h pinned at the last index and the others changed places
C39_Witness ==
  /\ trace = <<Ev("call", "QueueManager.shuffleQueue", "h", 3)>>
  /\ qmQueue = <<TrackB, TrackA, TrackH>>

\* ------------------------------------------------------------ stop() claim
\* C36: when stop() has returned the sink is paused and its position is 0,
\* whether the sink was playing or paused at another position before.
C36_StopStep == Stop => (sink'.paused /\ sink'.currentTime = 0)

C36_StopRewinds == [][C36_StopStep]_vars

\* ------------------------------------------------- emitter and notifier claims
\* C37: one emit invokes every callback that was subscribed when it started
\* exactly once, in the order of the subscriptions, also when a callback
\* unsubscribes itself while it runs.
C37_EmitStep == Emit(1) => CalledIn(trace') = subs

C37_NoSubscriberSkipped == [][C37_EmitStep]_vars

\* C40: a listen call or an unsubscribe call on a key that has a stored value
\* leaves that value as it is, also when the call removes the last subscriber
\* of the key or is the first one to subscribe again.
C40_ListenStep ==
  (/\ notifierState.defined
   /\ \/ \E cb \in NotifierCallbacks, state \in ListenStates : Listen("ev", cb, state)
      \/ \E cb \in NotifierCallbacks : NotifierUnsubscribe(cb))
  => GetLatestState' = GetLatestState

C40_StoredValueKept == [][C40_ListenStep]_vars

\* ------------------------------------------------- controller queue claims
\* C34: after every controller queue operation the sequence getQueue()
\* returns is the queue its QueueManager holds.
C34_QueueIsManagersQueue == GetQueue = qmQueue

\* C38: enableShuffle(true) and enableShuffle(false) leave every track id as
\* often in getQueue() as it was, and addToQueue and loadTrack take no track
\* out of it.
C38_KeepStep ==
  /\ \A e \in BOOLEAN : EnableShuffle(e) => IsPermutation(GetQueue', GetQueue)
  /\ (AddToQueue(<<TrackB>>) \/ \E t \in PlainTracks : LoadTrack(t)) =>
       \A t \in Tracks : CountId(GetQueue', t.id) >= CountId(GetQueue, t.id)

C38_AddedTrackStays == [][C38_KeepStep]_vars

\* --------------------------------------------- controller equalizer claims
\* the host gives this run of initializeEqualizer no usable signal chain
EngineUnavailable(context, ok) == ~(NewEqualizer(equalizer, context).hasContext /\ ok)

\* C31: when the signal chain cannot be constructed the equalizer status
\* becomes CLOSED and initialize() and play() end without an error; while the
\* status is CLOSED and no chain exists, setEqualizerPreset, setCustomEqualizer
\* and enableBassBoost change no parameter and throw nothing.
C31_UnavailableStep ==
  /\ \A context \in ContextStates, ok \in BOOLEAN, resumed \in BOOLEAN :
       (/\ EngineUnavailable(context, ok)
        /\ \/ \E i \in 1..MaxTasks : InitializeModulesWithEqualizer(i, context, ok, resumed)
           \/ /\ PlayWithEqualizer(context, ok, resumed)
              /\ isEqualizerEnabled
              /\ equalizerStatus = "IDEAL")
       => (equalizerStatus' = "CLOSED" /\ NoError(trace'))
  /\ (/\ isEqualizerEnabled
      /\ equalizerStatus = "CLOSED"
      /\ equalizer.created
      /\ ~equalizer.built
      /\ \/ \E k \in 1..Len(PresetInputs) : SetEqualizerPreset(k)
         \/ \E k \in 1..Len(CustomGains) : SetCustomEqualizer(k)
         \/ \E enabled \in BOOLEAN, boost \in BoostInputs : EnableBassBoost(enabled, boost))
     => (UNCHANGED equalizer /\ NoError(trace'))

C31_UnavailableDisables == [][C31_UnavailableStep]_vars

\* C35: with the equalizer enabled, initializeWithAudioElement runs at most
\* once in the life of a controller, whatever initialize, play and
\* loadAndPlay calls are made.
C35_BuiltOnce == eqBuilds <= 1

====
